---- MODULE Spec2Model ----
(***************************************************************************)
(* Lifecycle model of ponrunner:                                           *)
(*   - handleShutdown and Start (src/ponrunner.go)                         *)
(*   - setupOTelSDK and its composite teardown (src/unnamed/part_001)      *)
(*   - the exporter settings of the three providers (part_001:300-545)     *)
(* The specifications share one set of variables:                          *)
(*   Spec          a run of Start (orchestrator, listener task, signals)   *)
(*   SpecLive      Spec with a fair scheduler for the orchestrator         *)
(*   SpecShutdown  handleShutdown called directly on a serverControl       *)
(*   SpecShutdownLive  SpecShutdown with passing time and a fair scheduler *)
(*   SpecOTel      setupOTelSDK followed by calls of the returned teardown *)
(*   SpecServer    the timeouts Start reads from cfg for router and server *)
(*   SpecOpenFeature  setOpenFeatureProvider (src/openfeature.go)          *)
(*   SpecIP        utils.IPAddressFromRequest (src/utils/ip.go)            *)
(*   SpecExporter  newTracerProvider / newMeterProvider / newLoggerProvider*)
(*                 applied to a configuration of exporter settings         *)
(***************************************************************************)
EXTENDS Integers, Sequences, FiniteSets, TLC

\* ---------------------------------------------------------------- bounds
MaxTimeout == 2

MaxBundles == 2

MaxShutdownCalls == 2

MaxCfgValue == 3

\* ---------------------------------------------------------------- errors
\* A Go error value. nil, a plain error, or the result of errors.Join.
Nil == [kind |-> "nil"]

Leaf(id) == [kind |-> "leaf", id |-> id]

ErrServerClosed == Leaf(<<"http", "server closed">>)

DeadlineExceeded == Leaf(<<"context", "deadline exceeded">>)

Canceled == Leaf(<<"context", "canceled">>)

ShutdownFailed == Leaf(<<"shutdown", "failed">>)

ListenErr == Leaf(<<"listen", "bind: address already in use">>)

BundleErr == Leaf(<<"bundle", "registration failed">>)

MissingKeyErr == Leaf(<<"configura", "missing key">>)

ResourceErr == Leaf(<<"otel", "resource">>)

InitErr(sub) == Leaf(<<"init", sub>>)

TeardownErr(sub) == Leaf(<<"teardown", sub>>)

\* mutant of Join: keeps the first error and drops the rest
JoinFirstOnly(a, b) == IF a # Nil THEN a ELSE b

\* errors.Join(a, b): nil operands are discarded, nil when nothing is left,
\* otherwise a join error wrapping the remaining operands in order.
Join(a, b) ==
  LET errs == SelectSeq(<<a, b>>, LAMBDA e : e # Nil)
  IN IF errs = <<>> THEN Nil ELSE [kind |-> "join", errs |-> errs]

RECURSIVE Is(_, _)
\* errors.Is(err, target): err is target, or err is a join error one of whose
\* wrapped errors Is target, or err wraps (%w) an error that Is target.
Is(err, target) ==
  \/ err = target
  \/ /\ err.kind = "join"
     /\ \E i \in 1..Len(err.errs) : Is(err.errs[i], target)
  \/ /\ err.kind = "wrap"
     /\ Is(err.err, target)

\* ---------------------------------------------------------------- config
SERVER_PORT == "SERVER_PORT"

SERVER_WRITE_TIMEOUT == "SERVER_REQUEST_TIMEOUT"

SERVER_READ_TIMEOUT == "SERVER_READ_TIMEOUT"

SERVER_REQUEST_TIMEOUT == "SERVER_REQUEST_TIMEOUT"

SERVER_SHUTDOWN_TIMEOUT == "SERVER_SHUTDOWN_TIMEOUT"

\* the key names a caller may register in the configuration
KeyNames == {"SERVER_PORT", "SERVER_WRITE_TIMEOUT", "SERVER_READ_TIMEOUT",
             "SERVER_REQUEST_TIMEOUT", "SERVER_SHUTDOWN_TIMEOUT"}

\* the keys Start passes to cfg.ConfigurationKeysRegistered
RequiredKeys == {SERVER_PORT, SERVER_REQUEST_TIMEOUT, SERVER_READ_TIMEOUT,
                 SERVER_WRITE_TIMEOUT, SERVER_SHUTDOWN_TIMEOUT}

\* cfg.ConfigurationKeysRegistered(keys...): an error when a key is missing
ConfigurationKeysRegistered(reg, keys) ==
  IF keys \subseteq reg THEN Nil ELSE MissingKeyErr

Signals == {"SIGHUP", "SIGINT", "SIGTERM", "SIGQUIT"}

TimeoutValues == (0 - 1)..MaxTimeout

ChanCap == 1

SubNames == {"traces", "metrics", "logs"}

VARIABLES
  \* ---- Start
  registered,          \* key names registered in cfg
  shutdownTimeoutCfg,  \* cfg.Int64(SERVER_SHUTDOWN_TIMEOUT), in seconds
  bundles,             \* the APIBundle callbacks: TRUE returns nil, FALSE an error
  bundlesCalled,       \* number of callbacks invoked by RegisterAPIBundles
  bundleCalls,         \* indices of the callbacks invoked, in order of invocation
  ctxCancelled,        \* the ambient ctx given to Start / handleShutdown is done
  notifyActive,        \* signal.NotifyContext is observing OS signals
  serverCtxDone,       \* serverCtx.Done() is closed
  signalSeen,          \* the OS signal that cancelled serverCtx, or "none"
  servingAtSignal,     \* ListenAndServe was running when that signal arrived
  pc,                  \* position of the orchestrator in Start
  lpc,                 \* position of the ListenAndServe goroutine
  chanBuf,             \* srvListenAndServeErrChan: buffered values
  chanClosed,          \* srvListenAndServeErrChan: closed
  inShutdown,          \* srv.Shutdown has been invoked
  cause,               \* which select case resolved the wait
  listenAndServeError, \* Start's local of that name
  startRet,            \* the value Start returned
  selectSaw,           \* what the select found ready when it resolved
  srvCfg,              \* per registered key name: the int64 value cfg holds
  srvPc,               \* "idle", "ready", "built"
  srvTimeouts,         \* the request, read and write timeout Start applied
  \* ---- handleShutdown
  hsPc,                \* "idle", "ready", "stopping", "returned"
  hsParent,            \* shutdownParentCtx: "background", "ambient", "serverCtx"
  hsTimeout,           \* shutdownTimeout, in ticks
  opElapsed,           \* ticks elapsed since context.WithTimeout
  opCtxErr,            \* shutdownOpCtx.Err()
  opErrAtCall,         \* shutdownOpCtx.Err() when srv.Shutdown was invoked
  stopCalls,           \* number of srv.Shutdown invocations
  stopResult,          \* what srv.Shutdown returned
  shutdownErr,         \* what handleShutdown returned
  watcherPc,           \* the logging goroutine: "none", "waiting", "done"
  \* ---- setupOTelSDK
  otelKeysOk,          \* every required OTEL_* key is registered
  otelEnabled,         \* cfg.Bool(OTEL_ENABLED)
  switches,            \* per subsystem: cfg.Bool(OTEL_<SIGNAL>_ENABLED)
  opc,                 \* position in setupOTelSDK
  shutdownFuncs,       \* the registry of teardown actions
  cumulativeErr,
  initCalls,           \* subsystem initializers invoked, in order
  failedSub,           \* the subsystem whose initializer failed, or "none"
  teardownCalls,       \* every teardown action invoked, in order
  unwindFailed,        \* teardown actions that returned an error in the unwind
  globalProvider,      \* per subsystem: the process-wide provider
  retFn,               \* returned teardown: "unset", "nil", "noop", "master"
  retErr,              \* returned error
  shutdownCallCount,   \* calls of the returned teardown
  lastInvoked,         \* teardown actions invoked by the latest such call
  lastErr,             \* error returned by the latest such call
  callErrs,            \* the error returned by each such call, in order
  \* ---- newTracerProvider / newMeterProvider / newLoggerProvider
  expSig,              \* the provider being built: "traces", "metrics", "logs"
  expEnabled,          \* cfg.Bool(OTEL_EXPORTER_ENABLED)
  expCfg,              \* per scope: the OTEL_EXPORTER_OTLP_* strings
  expPc,               \* "idle", "ready", "done"
  expResult,           \* the exporter chosen, its settings and the error
  \* ---- setOpenFeatureProvider
  ofName,              \* cfg.String(SERVER_OPENFEATURE_PROVIDER_NAME)
  ofUrl,               \* cfg.String(SERVER_OPENFEATURE_PROVIDER_URL)
  ofPrev,              \* the provider that was active before the call
  ofActive,            \* the active provider: its metadata name
  ofPc,                \* "idle", "ready", "done"
  ofRet,               \* the error setOpenFeatureProvider returned
  \* ---- utils.IPAddressFromRequest
  ipCheckHeaders,      \* the checkHeaders argument
  ipHeaders,           \* r.Header: per header name, its comma-separated entries
  ipRemoteAddr,        \* r.RemoteAddr
  ipPc,                \* "idle", "ready", "done"
  ipRet                \* the string IPAddressFromRequest returned

srvVars == <<srvCfg, srvPc, srvTimeouts>>

ofVars == <<ofName, ofUrl, ofPrev, ofActive, ofPc, ofRet>>

\* the variables of the helpers that run beside the lifecycle
ipVars == <<ipCheckHeaders, ipHeaders, ipRemoteAddr, ipPc, ipRet>>

sideVars == <<srvVars, ofVars, ipVars>>

startVars == <<registered, shutdownTimeoutCfg, bundles, bundlesCalled,
               notifyActive, serverCtxDone, signalSeen, pc, lpc, chanBuf,
               chanClosed, cause, listenAndServeError, startRet,
               selectSaw, bundleCalls, servingAtSignal, sideVars>>

envVars == <<ctxCancelled, inShutdown>>

hsVars == <<hsPc, hsParent, hsTimeout, opElapsed, opCtxErr, opErrAtCall,
            stopCalls, stopResult, shutdownErr, watcherPc>>

expVars == <<expSig, expEnabled, expCfg, expPc, expResult>>

otelVars == <<otelKeysOk, otelEnabled, switches, opc, shutdownFuncs,
              cumulativeErr, initCalls, failedSub, teardownCalls,
              unwindFailed, globalProvider, retFn, retErr, shutdownCallCount,
              lastInvoked, lastErr, callErrs, expVars>>

vars == <<startVars, envVars, hsVars, otelVars>>

\* ------------------------------------------------------- initial values
NoSelect == [ready |-> {}, pending |-> Nil]

StartIdle ==
  /\ registered = {}
  /\ shutdownTimeoutCfg = 0
  /\ bundles = <<>>
  /\ bundlesCalled = 0
  /\ notifyActive = FALSE
  /\ serverCtxDone = FALSE
  /\ signalSeen = "none"
  /\ pc = "idle"
  /\ lpc = "none"
  /\ chanBuf = <<>>
  /\ chanClosed = FALSE
  /\ cause = "none"
  /\ listenAndServeError = Nil
  /\ startRet = Nil
  /\ selectSaw = NoSelect
  /\ bundleCalls = <<>>
  /\ servingAtSignal = FALSE

HsIdle ==
  /\ hsPc = "idle"
  /\ hsParent = "background"
  /\ hsTimeout = 0
  /\ opElapsed = 0
  /\ opCtxErr = Nil
  /\ opErrAtCall = Nil
  /\ stopCalls = 0
  /\ stopResult = Nil
  /\ shutdownErr = Nil
  /\ watcherPc = "none"

OTelIdle ==
  /\ otelKeysOk = TRUE
  /\ otelEnabled = FALSE
  /\ switches = [s \in SubNames |-> FALSE]
  /\ opc = "idle"
  /\ shutdownFuncs = <<>>
  /\ cumulativeErr = Nil
  /\ initCalls = <<>>
  /\ failedSub = "none"
  /\ teardownCalls = <<>>
  /\ unwindFailed = {}
  /\ globalProvider = [s \in SubNames |-> "original"]
  /\ retFn = "unset"
  /\ retErr = Nil
  /\ shutdownCallCount = 0
  /\ lastInvoked = <<>>
  /\ lastErr = Nil
  /\ callErrs = <<>>

NoTimeouts == [request |-> 0, read |-> 0, write |-> 0]

SrvIdle ==
  /\ srvCfg = [k \in KeyNames |-> 0]
  /\ srvPc = "idle"
  /\ srvTimeouts = NoTimeouts

\* the settings a provider constructor did not get to read
NoSettings == [endpoint |-> "", protocol |-> "", headers |-> {}, timeout |-> 0]

NoResult == [exporter |-> "none", err |-> Nil, used |-> NoSettings]

Scopes == {"global"} \cup SubNames

\* every OTEL_EXPORTER_OTLP_* key registered with the empty string
EmptySettings ==
  [endpoint |-> "", protocol |-> "", headers |-> "", timeout |-> ""]

NoopProviderName == "NoopProvider"

OfIdle ==
  /\ ofName = ""
  /\ ofUrl = ""
  /\ ofPrev = NoopProviderName
  /\ ofActive = NoopProviderName
  /\ ofPc = "idle"
  /\ ofRet = Nil

defaultHeaders ==
  <<"X-Forwarded-For", "X-Real-Ip", "Http-Forwarded-For", "Http-Forwarded",
    "Http-X-Cluster-Client-Ip", "Http-X-Forwarded-For", "Http-X-Forwarded",
    "Http-Client-Ip">>

\* the header names a request may carry
HeaderNames ==
  {defaultHeaders[i] : i \in 1..Len(defaultHeaders)} \cup {"My-Client-Ip"}

IpIdle ==
  /\ ipCheckHeaders = <<>>
  /\ ipHeaders = [h \in HeaderNames |-> <<>>]
  /\ ipRemoteAddr = ""
  /\ ipPc = "idle"
  /\ ipRet = ""

ExpIdle ==
  /\ expSig = "traces"
  /\ expEnabled = FALSE
  /\ expCfg = [sc \in Scopes |-> EmptySettings]
  /\ expPc = "idle"
  /\ expResult = NoResult

\* ------------------------------------------------------- contexts
\* Done-ness of the context handleShutdown derives its deadline signal from.
ParentDone(parent, ambientDone, serverDone) ==
  CASE parent = "background" -> FALSE
    [] parent = "ambient" -> ambientDone
    [] parent = "serverCtx" -> serverDone

\* mutant of WithTimeoutErr: a duration that is not positive does not expire
WithTimeoutErrNoExpiry(parentDone, d) ==
  IF parentDone THEN Canceled ELSE Nil

\* context.WithTimeout(parent, d): Err() of the derived context on creation.
\* A parent that is already done cancels the child first (Canceled); else a
\* duration that is not positive expires it at once (DeadlineExceeded).
WithTimeoutErr(parentDone, d) ==
  IF parentDone THEN Canceled
  ELSE IF d <= 0 THEN DeadlineExceeded
  ELSE Nil

\* mutant of OpCtxAfterParent: the parent's cancellation does not reach the child
OpCtxAfterParentIgnored(parentDone) == opCtxErr

\* Err() of shutdownOpCtx after its parent's done-ness changed.
OpCtxAfterParent(parentDone) ==
  IF hsPc = "stopping" /\ opCtxErr = Nil /\ parentDone THEN Canceled
  ELSE opCtxErr

\* time.Second, in ticks of the model's clock
Second == 1

\* ------------------------------------------------------- handleShutdown
\* mutant of HandleShutdownResult: the stop error is wrapped
HandleShutdownResultWrapped(err) ==
  IF err = Nil \/ err = ErrServerClosed THEN Nil ELSE Join(err, Nil)

\* mutant of HandleShutdownResult: the sentinel is returned like any error
HandleShutdownResultNoSentinel(err) == err

\* ponrunner.go:72-82: what handleShutdown returns for srv.Shutdown's result.
HandleShutdownResult(err) ==
  IF err # Nil
  THEN IF err = ErrServerClosed THEN Nil ELSE err
  ELSE Nil

\* What a serverControl's Shutdown may return: success, the sentinel, an
\* error of its own, or the error of the context it was given once that
\* context is done.
StopOutcomes(ctxErr) ==
  {Nil, ErrServerClosed, ShutdownFailed} \cup
  (IF ctxErr # Nil THEN {ctxErr} ELSE {})

\* ponrunner.go:53-71: derive shutdownOpCtx, start the logging goroutine and
\* invoke srv.Shutdown(shutdownOpCtx).  Nothing blocks between these lines.
HSInvoke ==
  /\ hsPc = "ready"
  /\ LET e == WithTimeoutErr(ParentDone(hsParent, ctxCancelled, serverCtxDone),
                             hsTimeout)
     IN /\ opCtxErr' = e
        /\ opErrAtCall' = e
  /\ opElapsed' = 0
  /\ watcherPc' = "waiting"
  /\ stopCalls' = stopCalls + 1
  /\ inShutdown' = TRUE
  /\ hsPc' = "stopping"
  /\ UNCHANGED <<hsParent, hsTimeout, stopResult, shutdownErr>>
  /\ UNCHANGED <<startVars, ctxCancelled, otelVars>>

\* mutant of TimerErr: the timer of the derived context never fires
TimerErrNeverFires(elapsed, d) == Nil

\* ponrunner.go:56: Err() of a context.WithTimeout(parent, d) context that
\* was not done so far, once elapsed ticks have passed since its creation.
TimerErr(elapsed, d) == IF elapsed >= d THEN DeadlineExceeded ELSE Nil

\* One tick of time passes while srv.Shutdown is running; the timer of
\* shutdownOpCtx fires when the duration has elapsed.
Tick ==
  /\ hsPc = "stopping"
  /\ opCtxErr = Nil
  /\ opElapsed < hsTimeout
  /\ opElapsed' = opElapsed + 1
  /\ opCtxErr' = TimerErr(opElapsed', hsTimeout)
  /\ UNCHANGED <<hsPc, hsParent, hsTimeout, opErrAtCall, stopCalls,
                 stopResult, shutdownErr, watcherPc>>
  /\ UNCHANGED <<startVars, envVars, otelVars>>

\* mutant of AfterDeferredCancel: handleShutdown returns without cancelling
AfterDeferredCancelMissing(err) == err

\* ponrunner.go:57: Err() of shutdownOpCtx after the deferred
\* cancelShutdownOp(); a context that is already done keeps its error.
AfterDeferredCancel(err) == IF err = Nil THEN Canceled ELSE err

\* ponrunner.go:71-83 and the deferred cancelShutdownOp(): srv.Shutdown
\* returns res and handleShutdown returns.
HSReturn ==
  /\ hsPc = "stopping"
  /\ \E res \in StopOutcomes(opCtxErr) :
       /\ stopResult' = res
       /\ shutdownErr' = HandleShutdownResult(res)
  /\ opCtxErr' = AfterDeferredCancel(opCtxErr)
  /\ hsPc' = "returned"
  /\ UNCHANGED <<hsParent, hsTimeout, opElapsed, opErrAtCall, stopCalls,
                 watcherPc>>
  /\ UNCHANGED <<startVars, envVars, otelVars>>

\* ponrunner.go:60-67: the logging goroutine wakes once shutdownOpCtx is done.
WatcherWake ==
  /\ watcherPc = "waiting"
  /\ opCtxErr # Nil
  /\ watcherPc' = "done"
  /\ UNCHANGED <<hsPc, hsParent, hsTimeout, opElapsed, opCtxErr, opErrAtCall,
                 stopCalls, stopResult, shutdownErr>>
  /\ UNCHANGED <<startVars, envVars, otelVars>>

\* ------------------------------------------------------- environment
Running ==
  \/ pc \notin {"idle", "returned"}
  \/ pc = "idle" /\ hsPc \in {"ready", "stopping"}

\* The caller cancels the ambient context.  serverCtx, once created, is its
\* child and is cancelled with it.
CancelAmbient ==
  /\ Running
  /\ ~ctxCancelled
  /\ ctxCancelled' = TRUE
  /\ serverCtxDone' =
       IF pc \in {"register", "launch", "select", "shutdown"}
       THEN TRUE ELSE serverCtxDone
  /\ opCtxErr' = OpCtxAfterParent(ParentDone(hsParent, TRUE, serverCtxDone'))
  /\ UNCHANGED <<registered, shutdownTimeoutCfg, bundles, bundlesCalled,
                 notifyActive, signalSeen, pc, lpc, chanBuf, chanClosed,
                 cause, listenAndServeError, startRet>>
  /\ UNCHANGED <<hsPc, hsParent, hsTimeout, opElapsed, opErrAtCall, stopCalls,
                 stopResult, shutdownErr, watcherPc>>
  /\ UNCHANGED <<inShutdown, otelVars>>
  /\ UNCHANGED <<selectSaw, bundleCalls, servingAtSignal, sideVars>>

\* mutant of ServerCtxAfterSignal: SIGQUIT is not among the observed signals
ServerCtxAfterSignalNoQuit(sig, done) ==
  IF sig \in Signals \ {"SIGQUIT"} THEN TRUE ELSE done

\* ponrunner.go:100: serverCtx is done once one of the signals given to
\* signal.NotifyContext has arrived.
ServerCtxAfterSignal(sig, done) == IF sig \in Signals THEN TRUE ELSE done

\* ponrunner.go:100: an observed OS signal cancels serverCtx.
DeliverSignal ==
  /\ notifyActive
  /\ ~serverCtxDone
  /\ \E sig \in Signals :
       /\ signalSeen' = sig
       /\ serverCtxDone' = ServerCtxAfterSignal(sig, serverCtxDone)
  /\ servingAtSignal' = (lpc = "listening")
  /\ opCtxErr' =
       OpCtxAfterParent(ParentDone(hsParent, ctxCancelled, serverCtxDone'))
  /\ UNCHANGED <<registered, shutdownTimeoutCfg, bundles, bundlesCalled,
                 notifyActive, pc, lpc, chanBuf, chanClosed, cause,
                 listenAndServeError, startRet>>
  /\ UNCHANGED <<hsPc, hsParent, hsTimeout, opElapsed, opErrAtCall, stopCalls,
                 stopResult, shutdownErr, watcherPc>>
  /\ UNCHANGED <<envVars, otelVars>>
  /\ UNCHANGED <<selectSaw, bundleCalls, sideVars>>

\* ------------------------------------------------------- Start
RECURSIVE FirstFailure(_, _)
\* index of the first callback in bs, from i on, that returns an error; 0 if none
FirstFailure(bs, i) ==
  IF i > Len(bs) THEN 0
  ELSE IF ~bs[i] THEN i
  ELSE FirstFailure(bs, i + 1)

\* mutant of RegisterAPIBundles: the loop goes on after a callback failed
RegisterAPIBundlesKeepGoing(bs) ==
  [err |-> IF FirstFailure(bs, 1) > 0 THEN BundleErr ELSE Nil,
   called |-> Len(bs),
   order |-> [k \in 1..Len(bs) |-> k]]

\* ponrunner.go:33-41: RegisterAPIBundles calls the bundles in order and
\* returns at the first error.
RegisterAPIBundles(bs) ==
  LET f == FirstFailure(bs, 1)
      n == IF f > 0 THEN f ELSE Len(bs)
  IN [err |-> IF f > 0 THEN BundleErr ELSE Nil,
      called |-> n,
      order |-> [k \in 1..n |-> k]]

\* mutant of StartShutdownParent: the shutdown deadline derived from serverCtx
StartShutdownParentServerCtx == "serverCtx"

\* ponrunner.go:163: the parent context Start hands to handleShutdown
StartShutdownParent == "background"

\* mutant of AfterSelect: no shutdown after a listener failure
AfterSelectSkipOnFailure(lsErr) == IF lsErr # Nil THEN "failed" ELSE "shutdown"

\* ponrunner.go:160-163: after the select Start always proceeds to handleShutdown
AfterSelect(lsErr) == "shutdown"

\* mutant of StartResult: the result of handleShutdown is dropped
StartResultDropShutdown(lsErr, shErr) == lsErr

\* mutant of StartResult: a shutdown error replaces the listener error
StartResultShutdownFirst(lsErr, shErr) == IF shErr # Nil THEN shErr ELSE lsErr

\* ponrunner.go:165-175: the value Start returns after handleShutdown
StartResult(lsErr, shErr) == IF lsErr # Nil THEN lsErr ELSE shErr

\* mutant of SelectReady: the cancellation of serverCtx is not waited on
SelectReadyChanOnly(buf, closed, ctxDone) ==
  IF Len(buf) > 0 \/ closed THEN {"chan"} ELSE {}

\* ponrunner.go:144-158: the cases of the select that can proceed.  When
\* several can, Go chooses one of them at random.
SelectReady(buf, closed, ctxDone) ==
  (IF Len(buf) > 0 \/ closed THEN {"chan"} ELSE {}) \cup
  (IF ctxDone THEN {"ctx"} ELSE {})

\* mutant of AfterConfigCheck: a missing key does not stop Start
AfterConfigCheckIgnored(err) == "notify"

\* ponrunner.go:95-97: Start returns when the configuration check failed
AfterConfigCheck(err) == IF err # Nil THEN "returned" ELSE "notify"

\* ponrunner.go:88-97
CheckConfig ==
  /\ pc = "start"
  /\ LET err == ConfigurationKeysRegistered(registered, RequiredKeys)
     IN /\ pc' = AfterConfigCheck(err)
        /\ startRet' = IF pc' = "returned" THEN err ELSE startRet
  /\ UNCHANGED <<registered, shutdownTimeoutCfg, bundles, bundlesCalled,
                 notifyActive, serverCtxDone, signalSeen, lpc, chanBuf,
                 chanClosed, cause, listenAndServeError>>
  /\ UNCHANGED <<envVars, hsVars, otelVars>>
  /\ UNCHANGED <<selectSaw, bundleCalls, servingAtSignal, sideVars>>

\* ponrunner.go:100: signal.NotifyContext(ctx, SIGHUP, SIGINT, SIGTERM, SIGQUIT)
NotifyContext ==
  /\ pc = "notify"
  /\ notifyActive' = TRUE
  /\ serverCtxDone' = ctxCancelled
  /\ pc' = "register"
  /\ UNCHANGED <<registered, shutdownTimeoutCfg, bundles, bundlesCalled,
                 signalSeen, lpc, chanBuf, chanClosed, cause,
                 listenAndServeError, startRet>>
  /\ UNCHANGED <<envVars, hsVars, otelVars>>
  /\ UNCHANGED <<selectSaw, bundleCalls, servingAtSignal, sideVars>>

\* mutant of AfterRegister: a registration error does not stop Start
AfterRegisterIgnored(err) == "launch"

\* mutant of AfterRegister: the listener goroutine is not started
AfterRegisterNoLaunch(err) == IF err # Nil THEN "returned" ELSE "select"

\* ponrunner.go:113-127: Start returns when the registration failed and
\* otherwise goes on to build the server and start the listener goroutine
AfterRegister(err) == IF err # Nil THEN "returned" ELSE "launch"

\* ponrunner.go:103-116: middleware, API adapter and bundle registration;
\* on an error Start returns it and the deferred stopSignalNotify runs.
RegisterBundles ==
  /\ pc = "register"
  /\ LET r == RegisterAPIBundles(bundles)
     IN /\ bundlesCalled' = r.called
        /\ bundleCalls' = r.order
        /\ pc' = AfterRegister(r.err)
        /\ startRet' = IF pc' = "returned" THEN r.err ELSE startRet
        /\ notifyActive' = IF pc' = "returned" THEN FALSE ELSE notifyActive
  /\ UNCHANGED <<registered, shutdownTimeoutCfg, bundles, serverCtxDone,
                 signalSeen, lpc, chanBuf, chanClosed, cause,
                 listenAndServeError>>
  /\ UNCHANGED <<envVars, hsVars, otelVars>>
  /\ UNCHANGED <<selectSaw, servingAtSignal, sideVars>>

\* ponrunner.go:118-140: build srv, make the channel, start the goroutine
Launch ==
  /\ pc = "launch"
  /\ lpc' = "spawned"
  /\ pc' = "select"
  /\ UNCHANGED <<registered, shutdownTimeoutCfg, bundles, bundlesCalled,
                 notifyActive, serverCtxDone, signalSeen, chanBuf, chanClosed,
                 cause, listenAndServeError, startRet>>
  /\ UNCHANGED <<envVars, hsVars, otelVars>>
  /\ UNCHANGED <<selectSaw, bundleCalls, servingAtSignal, sideVars>>

\* mutant of ListenerDeliver: a failure is sent and the channel closed as well
ListenerDeliverSendAndClose(lsErr, buf, closed) ==
  IF lsErr # Nil /\ lsErr # ErrServerClosed
  THEN [buf |-> Append(buf, lsErr), closed |-> TRUE, sends |-> TRUE]
  ELSE [buf |-> buf, closed |-> TRUE, sends |-> FALSE]

\* ponrunner.go:133-139: the goroutine delivers the result of ListenAndServe
ListenerDeliver(lsErr, buf, closed) ==
  IF lsErr # Nil /\ lsErr # ErrServerClosed
  THEN [buf |-> Append(buf, lsErr), closed |-> closed, sends |-> TRUE]
  ELSE [buf |-> buf, closed |-> TRUE, sends |-> FALSE]

\* ponrunner.go:128-132: the goroutine runs and calls srv.ListenAndServe.
\* On a server that is already shutting down ListenAndServe returns
\* ErrServerClosed at once.
ListenBegin ==
  /\ lpc = "spawned"
  /\ IF inShutdown
     THEN LET d == ListenerDeliver(ErrServerClosed, chanBuf, chanClosed)
          IN /\ chanBuf' = d.buf
             /\ chanClosed' = d.closed
             /\ lpc' = "done"
     ELSE /\ lpc' = "listening"
          /\ UNCHANGED <<chanBuf, chanClosed>>
  /\ UNCHANGED <<registered, shutdownTimeoutCfg, bundles, bundlesCalled,
                 notifyActive, serverCtxDone, signalSeen, pc, cause,
                 listenAndServeError, startRet>>
  /\ UNCHANGED <<envVars, hsVars, otelVars>>
  /\ UNCHANGED <<selectSaw, bundleCalls, servingAtSignal, sideVars>>

\* What a running ListenAndServe may return: a bind or accept failure at any
\* time, ErrServerClosed once Shutdown has been invoked.
ListenOutcomes(shuttingDown) ==
  {ListenErr} \cup (IF shuttingDown THEN {ErrServerClosed} ELSE {})

\* ponrunner.go:132-139: ListenAndServe returns and the result is delivered;
\* a send blocks while the channel's buffer is full.
ListenReturn ==
  /\ lpc = "listening"
  /\ \E lsErr \in ListenOutcomes(inShutdown) :
       LET d == ListenerDeliver(lsErr, chanBuf, chanClosed)
       IN /\ d.sends => Len(chanBuf) < ChanCap
          /\ chanBuf' = d.buf
          /\ chanClosed' = d.closed
  /\ lpc' = "done"
  /\ UNCHANGED <<registered, shutdownTimeoutCfg, bundles, bundlesCalled,
                 notifyActive, serverCtxDone, signalSeen, pc, cause,
                 listenAndServeError, startRet>>
  /\ UNCHANGED <<envVars, hsVars, otelVars>>
  /\ UNCHANGED <<selectSaw, bundleCalls, servingAtSignal, sideVars>>

\* mutant of NotifyAfterSelect: the cancellation branch keeps observing signals
NotifyAfterSelectKept(branch, active) == active

\* ponrunner.go:152-157: the serverCtx.Done() case calls stopSignalNotify(),
\* the channel case does not.
NotifyAfterSelect(branch, active) == IF branch = "ctx" THEN FALSE ELSE active

\* ponrunner.go:142-162: the two-way wait resolves, then the shutdown
\* duration is computed for the call of handleShutdown.
SelectWait ==
  /\ pc = "select"
  /\ \E branch \in SelectReady(chanBuf, chanClosed, serverCtxDone) :
       \/ /\ branch = "chan"
          /\ Len(chanBuf) > 0
          /\ listenAndServeError' = Head(chanBuf)
          /\ chanBuf' = Tail(chanBuf)
          /\ cause' = "ResourceFailed"
          /\ notifyActive' = NotifyAfterSelect(branch, notifyActive)
       \/ /\ branch = "chan"
          /\ Len(chanBuf) = 0
          /\ UNCHANGED <<listenAndServeError, chanBuf>>
          /\ cause' = "ResourceClosedCleanly"
          /\ notifyActive' = NotifyAfterSelect(branch, notifyActive)
       \/ /\ branch = "ctx"
          /\ UNCHANGED <<listenAndServeError, chanBuf>>
          /\ cause' = "SignalReceived"
          /\ notifyActive' = NotifyAfterSelect(branch, notifyActive)
  /\ selectSaw' = [ready |-> SelectReady(chanBuf, chanClosed, serverCtxDone),
                   pending |-> IF Len(chanBuf) > 0 THEN Head(chanBuf) ELSE Nil]
  /\ pc' = AfterSelect(listenAndServeError')
  /\ hsPc' = IF pc' = "shutdown" THEN "ready" ELSE hsPc
  /\ hsParent' = StartShutdownParent
  /\ hsTimeout' = shutdownTimeoutCfg * Second
  /\ UNCHANGED <<registered, shutdownTimeoutCfg, bundles, bundlesCalled,
                 serverCtxDone, signalSeen, lpc, chanClosed, startRet,
                 bundleCalls, servingAtSignal, sideVars>>
  /\ UNCHANGED <<opElapsed, opCtxErr, opErrAtCall, stopCalls, stopResult,
                 shutdownErr, watcherPc>>
  /\ UNCHANGED <<envVars, otelVars>>

\* ponrunner.go:165-176 and the deferred stopSignalNotify
StartReturn ==
  /\ \/ pc = "shutdown" /\ hsPc = "returned"
     \/ pc = "failed"
  /\ startRet' = StartResult(listenAndServeError, shutdownErr)
  /\ notifyActive' = FALSE
  /\ pc' = "returned"
  /\ UNCHANGED <<registered, shutdownTimeoutCfg, bundles, bundlesCalled,
                 serverCtxDone, signalSeen, lpc, chanBuf, chanClosed, cause,
                 listenAndServeError>>
  /\ UNCHANGED <<envVars, hsVars, otelVars>>
  /\ UNCHANGED <<selectSaw, bundleCalls, servingAtSignal, sideVars>>

BundleLists ==
  UNION {[1..n -> BOOLEAN] : n \in 0..MaxBundles}

Init ==
  /\ registered \in SUBSET KeyNames
  /\ shutdownTimeoutCfg \in TimeoutValues
  /\ bundles \in BundleLists
  /\ ctxCancelled \in BOOLEAN
  /\ inShutdown = FALSE
  /\ bundlesCalled = 0
  /\ notifyActive = FALSE
  /\ serverCtxDone = FALSE
  /\ signalSeen = "none"
  /\ pc = "start"
  /\ lpc = "none"
  /\ chanBuf = <<>>
  /\ chanClosed = FALSE
  /\ cause = "none"
  /\ listenAndServeError = Nil
  /\ startRet = Nil
  /\ selectSaw = NoSelect
  /\ bundleCalls = <<>>
  /\ servingAtSignal = FALSE
  /\ HsIdle
  /\ OTelIdle
  /\ ExpIdle
  /\ SrvIdle
  /\ OfIdle
  /\ IpIdle

Next ==
  \/ CheckConfig
  \/ NotifyContext
  \/ RegisterBundles
  \/ Launch
  \/ ListenBegin
  \/ ListenReturn
  \/ SelectWait
  \/ HSInvoke
  \/ Tick
  \/ HSReturn
  \/ WatcherWake
  \/ StartReturn
  \/ CancelAmbient
  \/ DeliverSignal

Spec == Init /\ [][Next]_vars

\* The steps of the orchestrator after the listener goroutine was started.
\* Each is a step of a runnable goroutine, which Go's scheduler runs
\* eventually; HSReturn is the return of a stop operation that completes.
Orchestrate ==
  \/ SelectWait
  \/ HSInvoke
  \/ HSReturn
  \/ StartReturn

\* Start with a fair scheduler and a stop operation that completes
SpecLive == Init /\ [][Next]_vars /\ WF_vars(Orchestrate)

\* handleShutdown called directly with the ambient context as parent
InitShutdown ==
  /\ StartIdle
  /\ OTelIdle
  /\ ExpIdle
  /\ SrvIdle
  /\ OfIdle
  /\ IpIdle
  /\ ctxCancelled \in BOOLEAN
  /\ inShutdown = FALSE
  /\ hsPc = "ready"
  /\ hsParent = "ambient"
  /\ hsTimeout \in TimeoutValues
  /\ opElapsed = 0
  /\ opCtxErr = Nil
  /\ opErrAtCall = Nil
  /\ stopCalls = 0
  /\ stopResult = Nil
  /\ shutdownErr = Nil
  /\ watcherPc = "none"

NextShutdown ==
  \/ HSInvoke
  \/ Tick
  \/ HSReturn
  \/ WatcherWake
  \/ CancelAmbient

SpecShutdown == InitShutdown /\ [][NextShutdown]_vars

\* SpecShutdown with time that passes while srv.Shutdown is running and a
\* scheduler that runs the logging goroutine once it can proceed
SpecShutdownLive ==
  InitShutdown /\ [][NextShutdown]_vars /\ WF_vars(Tick) /\ WF_vars(WatcherWake)

\* ------------------------------------------------------- setupOTelSDK
Range(f) == {f[i] : i \in 1..Len(f)}

Count(seq, x) == Cardinality({i \in 1..Len(seq) : seq[i] = x})

RECURSIVE Reverse(_)
Reverse(seq) ==
  IF seq = <<>> THEN <<>>
  ELSE Append(Reverse(Tail(seq)), Head(seq))

\* mutant of ShutdownOrder: teardown in order of registration
ShutdownOrderForward(funcs) == funcs

\* part_001:210-211: the loop runs from the last registered function to the first
ShutdownOrder(funcs) == Reverse(funcs)

\* mutant of RegistryAfterShutdown: the registry is not cleared
RegistryKept(funcs) == funcs

\* mutant of RegistryAfterShutdown: the oldest entry stays in the registry
RegistryKeepFirst(funcs) == IF funcs = <<>> THEN <<>> ELSE <<Head(funcs)>>

\* part_001:217: shutdownFuncs = nil
RegistryAfterShutdown(funcs) == <<>>

RECURSIVE JoinTeardown(_, _, _)
\* part_001:210-216: each function is invoked; an error is joined to
\* shutdownErr and the loop goes on.
JoinTeardown(order, failing, acc) ==
  IF order = <<>> THEN acc
  ELSE JoinTeardown(Tail(order), failing,
                    IF Head(order) \in failing
                    THEN Join(acc, TeardownErr(Head(order)))
                    ELSE acc)

RECURSIVE TeardownsRunUntilError(_, _)
\* mutant of TeardownsRun: the loop stops after the first teardown error
TeardownsRunUntilError(order, failing) ==
  IF order = <<>> THEN <<>>
  ELSE IF Head(order) \in failing THEN <<Head(order)>>
  ELSE <<Head(order)>> \o TeardownsRunUntilError(Tail(order), failing)

\* part_001:210-216: the loop has no break or return, so every function of
\* the order is invoked whatever the earlier ones returned.
TeardownsRun(order, failing) == order

\* mutant of MasterShutdown: a teardown action that failed stays registered
MasterShutdownRetryFailed(funcs, failing) ==
  [invoked |-> ShutdownOrder(funcs),
   err |-> JoinTeardown(ShutdownOrder(funcs), failing, Nil),
   funcs |-> SelectSeq(funcs, LAMBDA f : f \in failing)]

\* part_001:207-224: masterShutdown over the registry funcs, when exactly the
\* teardown actions in failing return an error.
MasterShutdown(funcs, failing) ==
  LET order == TeardownsRun(ShutdownOrder(funcs), failing)
  IN [invoked |-> order,
      err |-> JoinTeardown(order, failing, Nil),
      funcs |-> RegistryAfterShutdown(funcs)]

\* part_001:228-237: handleComponentSetupError
HandleComponentSetupError(cum, componentErr, funcs, failing) ==
  LET c == Join(cum, componentErr)
      m == MasterShutdown(funcs, failing)
  IN [cum |-> IF m.err # Nil THEN Join(c, m.err) ELSE c,
      invoked |-> m.invoked,
      funcs |-> m.funcs]

\* mutant of Successor: logs are set up before metrics
SuccessorLogsFirst(sub) ==
  CASE sub = "traces" -> "logs"
    [] sub = "logs" -> "metrics"
    [] sub = "metrics" -> "finish"

\* part_001:249-287: the blocks follow each other as traces, metrics, logs
Successor(sub) ==
  CASE sub = "traces" -> "metrics"
    [] sub = "metrics" -> "logs"
    [] sub = "logs" -> "finish"

\* mutant of NextOpc: setup goes on to the next subsystem after a failure
NextOpcContinue(sub, failed) == Successor(sub)

\* part_001:252-255, 264-267, 278-281: a failed initializer makes
\* setupOTelSDK return; otherwise the next subsystem follows.
NextOpc(sub, failed) == IF failed THEN "returned" ELSE Successor(sub)

\* mutant of ReturnedTeardown: no teardown is returned after a failed initializer
ReturnedTeardownNilOnFailure(path) ==
  CASE path = "disabled" -> "noop"
    [] path = "finish" -> "master"
    [] OTHER -> "nil"

\* part_001:191, 196-199, 243, 254, 266, 280, 292-295: the teardown function
\* of each return statement of setupOTelSDK
ReturnedTeardown(path) ==
  CASE path = "missingKey" -> "nil"
    [] path = "disabled" -> "noop"
    [] path = "resource" -> "nil"
    [] path = "component" -> "master"
    [] path = "finish" -> "master"

\* mutant of AfterKeyCheck: the disabled short-circuit comes before the key check
AfterKeyCheckDisabledFirst(keysOk, enabled) ==
  IF ~keysOk /\ enabled THEN "returned" ELSE "enabled"

\* part_001:165-192: a missing key makes setupOTelSDK return, whatever
\* OTEL_ENABLED holds; otherwise the OTEL_ENABLED check follows
AfterKeyCheck(keysOk, enabled) == IF ~keysOk THEN "returned" ELSE "enabled"

\* part_001:165-192
OTelCheckKeys ==
  /\ opc = "start"
  /\ IF AfterKeyCheck(otelKeysOk, otelEnabled) = "returned"
     THEN /\ retFn' = ReturnedTeardown("missingKey")
          /\ retErr' = MissingKeyErr
          /\ opc' = "returned"
     ELSE /\ UNCHANGED <<retFn, retErr>>
          /\ opc' = "enabled"
  /\ UNCHANGED <<otelKeysOk, otelEnabled, switches, shutdownFuncs,
                 cumulativeErr, initCalls, failedSub, teardownCalls,
                 unwindFailed, globalProvider, shutdownCallCount, lastInvoked,
                 lastErr, callErrs>>
  /\ UNCHANGED <<startVars, envVars, hsVars, expVars>>

\* mutant of AfterEnabledCheck: the OTEL_ENABLED switch is not honoured
AfterEnabledCheckIgnored(enabled) == "resource"

\* mutant of AfterEnabledCheck: the sense of the OTEL_ENABLED switch is inverted
AfterEnabledCheckInverted(enabled) == IF enabled THEN "returned" ELSE "resource"

\* part_001:194: a false OTEL_ENABLED makes setupOTelSDK return at once
AfterEnabledCheck(enabled) == IF ~enabled THEN "returned" ELSE "resource"

\* part_001:194-200
OTelCheckEnabled ==
  /\ opc = "enabled"
  /\ IF AfterEnabledCheck(otelEnabled) = "returned"
     THEN /\ retFn' = ReturnedTeardown("disabled")
          /\ retErr' = Nil
          /\ opc' = "returned"
     ELSE /\ UNCHANGED <<retFn, retErr>>
          /\ opc' = "resource"
  /\ UNCHANGED <<otelKeysOk, otelEnabled, switches, shutdownFuncs,
                 cumulativeErr, initCalls, failedSub, teardownCalls,
                 unwindFailed, globalProvider, shutdownCallCount, lastInvoked,
                 lastErr, callErrs>>
  /\ UNCHANGED <<startVars, envVars, hsVars, expVars>>

\* part_001:239-247: initializeResource, then the propagator
OTelInitResource ==
  /\ opc = "resource"
  /\ \E ok \in BOOLEAN :
       IF ~ok
       THEN /\ retFn' = ReturnedTeardown("resource")
            /\ retErr' = ResourceErr
            /\ opc' = "returned"
       ELSE /\ UNCHANGED <<retFn, retErr>>
            /\ opc' = "traces"
  /\ UNCHANGED <<otelKeysOk, otelEnabled, switches, shutdownFuncs,
                 cumulativeErr, initCalls, failedSub, teardownCalls,
                 unwindFailed, globalProvider, shutdownCallCount, lastInvoked,
                 lastErr, callErrs>>
  /\ UNCHANGED <<startVars, envVars, hsVars, expVars>>

\* mutant of ProvidersAfterUnwind: the unwind puts the original providers back
ProvidersAfterUnwindRestored(gp, invoked) ==
  [s \in SubNames |-> IF s \in Range(invoked) THEN "original" ELSE gp[s]]

\* part_001:207-237: masterShutdown and handleComponentSetupError call the
\* teardown actions and nothing else; no Set*Provider call is among them.
ProvidersAfterUnwind(gp, invoked) == gp

\* mutant of SetGlobalProvider: every process-wide provider is replaced
SetGlobalProviderAll(gp, sub) == [s \in SubNames |-> "sdk"]

\* part_001:128, 142, 156: otel.SetTracerProvider, otel.SetMeterProvider and
\* otelglobal.SetLoggerProvider replace the process-wide provider of the
\* one subsystem by the new SDK provider.
SetGlobalProvider(gp, sub) == [gp EXCEPT ![sub] = "sdk"]

\* part_001:249-287: one subsystem's block.  A disabled subsystem is
\* skipped; an enabled one has its initializer invoked, which registers its
\* provider and teardown on success and triggers the unwind on failure.
SubStep(sub) ==
  /\ opc = sub
  /\ IF ~switches[sub]
     THEN /\ opc' = Successor(sub)
          /\ UNCHANGED <<shutdownFuncs, cumulativeErr, initCalls, failedSub,
                         teardownCalls, unwindFailed, globalProvider, retFn,
                         retErr>>
     ELSE /\ initCalls' = Append(initCalls, sub)
          /\ \E ok \in BOOLEAN :
               IF ok
               THEN /\ shutdownFuncs' = Append(shutdownFuncs, sub)
                    /\ globalProvider' = SetGlobalProvider(globalProvider, sub)
                    /\ opc' = NextOpc(sub, FALSE)
                    /\ UNCHANGED <<cumulativeErr, failedSub, teardownCalls,
                                   unwindFailed, retFn, retErr>>
               ELSE \E failing \in SUBSET Range(shutdownFuncs) :
                      LET h == HandleComponentSetupError(cumulativeErr,
                                 InitErr(sub), shutdownFuncs, failing)
                      IN /\ cumulativeErr' = h.cum
                         /\ shutdownFuncs' = h.funcs
                         /\ teardownCalls' = teardownCalls \o h.invoked
                         /\ unwindFailed' = failing
                         /\ failedSub' = sub
                         /\ retFn' = ReturnedTeardown("component")
                         /\ retErr' = h.cum
                         /\ opc' = NextOpc(sub, TRUE)
                         /\ globalProvider' =
                              ProvidersAfterUnwind(globalProvider, h.invoked)
  /\ UNCHANGED <<otelKeysOk, otelEnabled, switches, shutdownCallCount,
                 lastInvoked, lastErr, callErrs>>
  /\ UNCHANGED <<startVars, envVars, hsVars, expVars>>

TracesStep == SubStep("traces")

MetricsStep == SubStep("metrics")

LogsStep == SubStep("logs")

\* part_001:289-295
OTelFinish ==
  /\ opc = "finish"
  /\ retFn' = ReturnedTeardown("finish")
  /\ retErr' = IF cumulativeErr # Nil THEN cumulativeErr ELSE Nil
  /\ opc' = "returned"
  /\ UNCHANGED <<otelKeysOk, otelEnabled, switches, shutdownFuncs,
                 cumulativeErr, initCalls, failedSub, teardownCalls,
                 unwindFailed, globalProvider, shutdownCallCount, lastInvoked,
                 lastErr, callErrs>>
  /\ UNCHANGED <<startVars, envVars, hsVars, expVars>>

\* The caller invokes the teardown function setupOTelSDK returned:
\* part_001:196-199 (no-op) or part_001:207-224 (masterShutdown).
CallShutdown ==
  /\ opc = "returned"
  /\ retFn \in {"noop", "master"}
  /\ shutdownCallCount < MaxShutdownCalls
  /\ shutdownCallCount' = shutdownCallCount + 1
  /\ IF retFn = "noop"
     THEN /\ lastInvoked' = <<>>
          /\ lastErr' = Nil
          /\ callErrs' = Append(callErrs, Nil)
          /\ UNCHANGED <<shutdownFuncs, teardownCalls>>
     ELSE \E failing \in SUBSET Range(shutdownFuncs) :
            LET m == MasterShutdown(shutdownFuncs, failing)
            IN /\ lastInvoked' = m.invoked
               /\ lastErr' = m.err
               /\ callErrs' = Append(callErrs, m.err)
               /\ shutdownFuncs' = m.funcs
               /\ teardownCalls' = teardownCalls \o m.invoked
  /\ UNCHANGED <<otelKeysOk, otelEnabled, switches, opc, cumulativeErr,
                 initCalls, failedSub, unwindFailed, globalProvider, retFn,
                 retErr>>
  /\ UNCHANGED <<startVars, envVars, hsVars, expVars>>

InitOTel ==
  /\ StartIdle
  /\ HsIdle
  /\ ExpIdle
  /\ SrvIdle
  /\ OfIdle
  /\ IpIdle
  /\ ctxCancelled = FALSE
  /\ inShutdown = FALSE
  /\ otelKeysOk \in BOOLEAN
  /\ otelEnabled \in BOOLEAN
  /\ switches \in [SubNames -> BOOLEAN]
  /\ opc = "start"
  /\ shutdownFuncs = <<>>
  /\ cumulativeErr = Nil
  /\ initCalls = <<>>
  /\ failedSub = "none"
  /\ teardownCalls = <<>>
  /\ unwindFailed = {}
  /\ globalProvider = [s \in SubNames |-> "original"]
  /\ retFn = "unset"
  /\ retErr = Nil
  /\ shutdownCallCount = 0
  /\ lastInvoked = <<>>
  /\ lastErr = Nil
  /\ callErrs = <<>>

NextOTel ==
  \/ OTelCheckKeys
  \/ OTelCheckEnabled
  \/ OTelInitResource
  \/ TracesStep
  \/ MetricsStep
  \/ LogsStep
  \/ OTelFinish
  \/ CallShutdown

SpecOTel == InitOTel /\ [][NextOTel]_vars

\* ------------------------------------------------------- server timeouts
CfgValues == 1..MaxCfgValue

\* cfg.Int64(key): the value registered under the key's name
Int64(cfg, key) == cfg[key]

\* ponrunner.go:103-125: Start reads the request timeout for the router's
\* timeout middleware and the read and write timeout for the http.Server.
BuildServer ==
  /\ srvPc = "ready"
  /\ srvTimeouts' =
       [request |-> Int64(srvCfg, SERVER_REQUEST_TIMEOUT) * Second,
        read |-> Int64(srvCfg, SERVER_READ_TIMEOUT) * Second,
        write |-> Int64(srvCfg, SERVER_WRITE_TIMEOUT) * Second]
  /\ srvPc' = "built"
  /\ UNCHANGED srvCfg
  /\ UNCHANGED <<registered, shutdownTimeoutCfg, bundles, bundlesCalled,
                 notifyActive, serverCtxDone, signalSeen, pc, lpc, chanBuf,
                 chanClosed, cause, listenAndServeError, startRet,
                 selectSaw, bundleCalls, servingAtSignal>>
  /\ UNCHANGED <<ofVars, ipVars>>
  /\ UNCHANGED <<envVars, hsVars, otelVars>>

\* Start on a configuration in which every key is registered with a value
InitServer ==
  /\ StartIdle
  /\ HsIdle
  /\ OTelIdle
  /\ ExpIdle
  /\ ctxCancelled = FALSE
  /\ inShutdown = FALSE
  /\ srvCfg \in [KeyNames -> CfgValues]
  /\ srvPc = "ready"
  /\ srvTimeouts = NoTimeouts
  /\ OfIdle
  /\ IpIdle

NextServer == BuildServer

SpecServer == InitServer /\ [][NextServer]_vars

\* ------------------------------------------------ setOpenFeatureProvider
\* src/openfeature.go. The configuration holds two strings, the provider
\* name and the provider URL; the OpenFeature API holds the active provider,
\* recorded by the name its metadata reports.
ErrOpenFeatureProviderURLNotSet == Leaf(<<"openfeature", "provider URL not set">>)

ErrInvalidOpenFeatureProviderURL == Leaf(<<"openfeature", "invalid provider URL">>)

ErrUnsupportedOpenFeatureProvider == Leaf(<<"openfeature", "unsupported provider">>)

\* fmt.Errorf("%w: ...", sentinel, detail): an error that wraps sentinel
Errorf(sentinel, detail) == [kind |-> "wrap", err |-> sentinel, msg |-> detail]

GoFeatureFlagProviderName == "GO Feature Flag Provider"

\* url.ParseRequestURI(rawURL) succeeds: rawURL is an absolute URI or an
\* absolute path. Of the URLs a configuration holds below, the empty string,
\* the host without a scheme and the unterminated IPv6 literal are rejected.
ParseRequestURIOk(rawURL) ==
  rawURL \in {"http://custom-provider.example.com", "/flags"}

\* mutant of ActiveAfterReset: the provider set before stays active
ActiveAfterResetKept(prev) == prev

\* openfeature.SetProvider(openfeature.NoopProvider{}), the first statement
ActiveAfterReset(prev) == NoopProviderName

\* setOpenFeatureProvider(cfg), as the error it returns and the provider
\* that is active when it returns. SetProviderAndWait(provider) makes the
\* go-feature-flag provider the active one; its initialization contacts no
\* server, so it returns nil.
SetOpenFeatureProvider(name, rawURL, prev) ==
  LET reset == ActiveAfterReset(prev)
  IN IF name = "" \/ name = "NoopProvider"
       THEN [err |-> Nil, active |-> reset]
     ELSE IF rawURL = ""
       THEN [err |-> Errorf(ErrOpenFeatureProviderURLNotSet, rawURL),
             active |-> reset]
     ELSE IF ~ParseRequestURIOk(rawURL)
       THEN [err |-> Errorf(ErrInvalidOpenFeatureProviderURL, rawURL),
             active |-> reset]
     ELSE IF name = "go-feature-flag"
       THEN [err |-> Nil, active |-> GoFeatureFlagProviderName]
     ELSE [err |-> Errorf(ErrUnsupportedOpenFeatureProvider, name),
           active |-> reset]

SetProviderStep ==
  /\ ofPc = "ready"
  /\ LET r == SetOpenFeatureProvider(ofName, ofUrl, ofPrev)
     IN /\ ofRet' = r.err
        /\ ofActive' = r.active
  /\ ofPc' = "done"
  /\ UNCHANGED <<ofName, ofUrl, ofPrev>>
  /\ UNCHANGED <<srvVars, ipVars>>
  /\ UNCHANGED <<registered, shutdownTimeoutCfg, bundles, bundlesCalled,
                 notifyActive, serverCtxDone, signalSeen, pc, lpc, chanBuf,
                 chanClosed, cause, listenAndServeError, startRet,
                 selectSaw, bundleCalls, servingAtSignal>>
  /\ UNCHANGED <<envVars, hsVars, otelVars>>

InitOpenFeature ==
  /\ StartIdle
  /\ SrvIdle
  /\ HsIdle
  /\ OTelIdle
  /\ ExpIdle
  /\ ctxCancelled = FALSE
  /\ inShutdown = FALSE
  /\ ofName \in {"", "NoopProvider", "noopprovider", "go-feature-flag",
                  "unknown-provider-name"}
  /\ ofUrl \in {"", "http://custom-provider.example.com", "/flags",
                 "custom-provider.example.com", "http://[::1"}
  /\ ofPrev \in {NoopProviderName, GoFeatureFlagProviderName, "custom"}
  /\ ofActive = ofPrev
  /\ ofPc = "ready"
  /\ ofRet = Nil
  /\ IpIdle

NextOpenFeature == SetProviderStep

SpecOpenFeature == InitOpenFeature /\ [][NextOpenFeature]_vars

\* ------------------------------------------------ IPAddressFromRequest
\* src/utils/ip.go. A net.IP in its 16-byte form is a sequence of eight
\* 16-bit groups; an IPv4 address is held in its IPv4-in-IPv6 form, as
\* net.ParseIP returns it.
MaxEntries == 2

V4(a, b, c, d) == <<0, 0, 0, 0, 0, 65535, a * 256 + b, c * 256 + d>>

\* the nil net.IP
NoIP == <<>>

\* ip.To4() # nil
To4(ip) == (\A i \in 1..5 : ip[i] = 0) /\ ip[6] = 65535

\* bytes.Compare(a, b) on two 16-byte addresses
Compare(a, b) ==
  LET diff == {i \in 1..8 : a[i] # b[i]}
  IN IF diff = {} THEN 0
     ELSE LET i == CHOOSE j \in diff : \A k \in diff : j <= k
          IN IF a[i] < b[i] THEN 0 - 1 ELSE 1

inRange(r, ipAddress) ==
  Compare(ipAddress, r.start) >= 0 /\ Compare(ipAddress, r.end) <= 0

privateRangesV4 ==
  <<[start |-> V4(0, 0, 0, 0), end |-> V4(0, 255, 255, 255)],
    [start |-> V4(10, 0, 0, 0), end |-> V4(10, 255, 255, 255)],
    [start |-> V4(100, 64, 0, 0), end |-> V4(100, 127, 255, 255)],
    [start |-> V4(127, 0, 0, 0), end |-> V4(127, 255, 255, 255)],
    [start |-> V4(169, 254, 0, 0), end |-> V4(169, 254, 255, 255)],
    [start |-> V4(172, 16, 0, 0), end |-> V4(172, 31, 255, 255)],
    [start |-> V4(192, 0, 0, 0), end |-> V4(192, 0, 0, 255)],
    [start |-> V4(192, 0, 2, 0), end |-> V4(192, 0, 2, 255)],
    [start |-> V4(192, 88, 99, 0), end |-> V4(192, 88, 99, 255)],
    [start |-> V4(192, 168, 0, 0), end |-> V4(192, 168, 255, 255)],
    [start |-> V4(198, 18, 0, 0), end |-> V4(198, 19, 255, 255)],
    [start |-> V4(198, 51, 100, 0), end |-> V4(198, 51, 100, 255)],
    [start |-> V4(203, 0, 113, 0), end |-> V4(203, 0, 113, 255)],
    [start |-> V4(224, 0, 0, 0), end |-> V4(239, 255, 255, 255)],
    [start |-> V4(233, 252, 0, 0), end |-> V4(233, 252, 0, 255)],
    [start |-> V4(240, 0, 0, 0), end |-> V4(255, 255, 255, 254)],
    [start |-> V4(255, 255, 255, 255), end |-> V4(255, 255, 255, 255)]>>

privateRangesV6 ==
  <<[start |-> <<0, 0, 0, 0, 0, 0, 0, 0>>, end |-> <<0, 0, 0, 0, 0, 0, 0, 0>>],
    [start |-> <<0, 0, 0, 0, 0, 0, 0, 1>>, end |-> <<0, 0, 0, 0, 0, 0, 0, 1>>],
    [start |-> <<0, 0, 0, 0, 0, 65535, 0, 0>>,
     end |-> <<0, 0, 0, 0, 0, 65535, 65535, 65535>>],
    [start |-> <<0, 0, 0, 0, 65535, 0, 0, 0>>,
     end |-> <<0, 0, 0, 0, 65535, 0, 65535, 65535>>],
    [start |-> <<100, 65435, 0, 0, 0, 0, 0, 0>>,
     end |-> <<100, 65435, 0, 0, 0, 0, 65535, 65535>>],
    [start |-> <<100, 65435, 1, 0, 0, 0, 0, 0>>,
     end |-> <<100, 65435, 1, 65535, 65535, 65535, 65535, 65535>>],
    [start |-> <<256, 0, 0, 0, 0, 0, 0, 0>>,
     end |-> <<256, 0, 0, 0, 65535, 65535, 65535, 65535>>],
    [start |-> <<8193, 0, 0, 0, 0, 0, 0, 0>>,
     end |-> <<8193, 0, 65535, 65535, 65535, 65535, 65535, 65535>>],
    [start |-> <<8193, 32, 0, 0, 0, 0, 0, 0>>,
     end |-> <<8193, 47, 65535, 65535, 65535, 65535, 65535, 65535>>],
    [start |-> <<8193, 3512, 0, 0, 0, 0, 0, 0>>,
     end |-> <<8193, 3512, 65535, 65535, 65535, 65535, 65535, 65535>>],
    [start |-> <<8194, 0, 0, 0, 0, 0, 0, 0>>,
     end |-> <<8194, 65535, 65535, 65535, 65535, 65535, 65535, 65535>>],
    [start |-> <<16383, 0, 0, 0, 0, 0, 0, 0>>,
     end |-> <<16383, 4095, 65535, 65535, 65535, 65535, 65535, 65535>>],
    [start |-> <<24320, 0, 0, 0, 0, 0, 0, 0>>,
     end |-> <<24320, 65535, 65535, 65535, 65535, 65535, 65535, 65535>>],
    [start |-> <<64512, 0, 0, 0, 0, 0, 0, 0>>,
     end |-> <<65023, 65535, 65535, 65535, 65535, 65535, 65535, 65535>>],
    [start |-> <<65152, 0, 0, 0, 0, 0, 0, 0>>,
     end |-> <<65152, 0, 0, 0, 65535, 65535, 65535, 65535>>],
    [start |-> <<65280, 0, 0, 0, 0, 0, 0, 0>>,
     end |-> <<65535, 65535, 65535, 65535, 65535, 65535, 65535, 65535>>]>>

IsPrivateSubnet(ipAddress) ==
  IF To4(ipAddress)
    THEN \E i \in 1..Len(privateRangesV4) : inRange(privateRangesV4[i], ipAddress)
    ELSE \E i \in 1..Len(privateRangesV6) : inRange(privateRangesV6[i], ipAddress)

\* net.IP.IsGlobalUnicast: not the IPv4 broadcast address, not unspecified,
\* not loopback, not multicast and not link-local unicast
IsGlobalUnicast(ip) ==
  IF To4(ip)
    THEN /\ ip # V4(255, 255, 255, 255)
         /\ ip # V4(0, 0, 0, 0)
         /\ ip[7] \div 256 # 127
         /\ (ip[7] \div 256) \div 16 # 14
         /\ ip[7] # 169 * 256 + 254
    ELSE /\ ip # <<0, 0, 0, 0, 0, 0, 0, 0>>
         /\ ip # <<0, 0, 0, 0, 0, 0, 0, 1>>
         /\ ip[1] \div 256 # 255
         /\ ip[1] \div 64 # 1018

\* net.ParseIP on the address texts that occur in the requests below; any
\* other text is not an address
ParseIP(t) ==
     CASE t = "8.8.8.8" -> V4(8, 8, 8, 8)
       [] t = "1.1.1.1" -> V4(1, 1, 1, 1)
       [] t = "203.0.114.50" -> V4(203, 0, 114, 50)
       [] t = "10.0.0.1" -> V4(10, 0, 0, 1)
       [] t = "192.168.0.5" -> V4(192, 168, 0, 5)
       [] t = "127.0.0.1" -> V4(127, 0, 0, 1)
       [] t = "224.0.0.1" -> V4(224, 0, 0, 1)
       [] t = "169.254.10.10" -> V4(169, 254, 10, 10)
       [] t = "203.0.113.7" -> V4(203, 0, 113, 7)
       [] t = "2001:4860:4860::8888" -> <<8193, 18528, 18528, 0, 0, 0, 0, 34952>>
       [] t = "fc00::1" -> <<64512, 0, 0, 0, 0, 0, 0, 1>>
       [] t = "::1" -> <<0, 0, 0, 0, 0, 0, 0, 1>>
       [] t = "ff02::1" -> <<65282, 0, 0, 0, 0, 0, 0, 1>>
       [] OTHER -> NoIP

\* strings.TrimSpace on a header entry: the entries written with
\* surrounding spaces, and what is left of them
TrimSpace(t) ==
     CASE t = " 1.1.1.1 " -> "1.1.1.1"
       [] t = " 10.0.0.1" -> "10.0.0.1"
       [] t = " " -> ""
       [] OTHER -> t

\* strings.Split(value, ","): a header value is kept as the sequence of its
\* comma-separated entries; the empty string splits into one empty entry
Split(value) == IF value = <<>> THEN <<"">> ELSE value

\* net.SplitHostPort(r.RemoteAddr) on the remote addresses of the requests
\* below: an address without a port is an error
SplitHostPort(a) ==
  LET ok(h) == [host |-> h, err |-> FALSE]
  IN CASE a = "8.8.8.8:12345" -> ok("8.8.8.8")
       [] a = "10.0.0.1:12345" -> ok("10.0.0.1")
       [] a = "127.0.0.1:12345" -> ok("127.0.0.1")
       [] a = "[2001:4860:4860::8888]:12345" -> ok("2001:4860:4860::8888")
       [] a = "[fc00::1]:12345" -> ok("fc00::1")
       [] a = "not-an-ip:12345" -> ok("not-an-ip")
       [] OTHER -> [host |-> "", err |-> TRUE]

NotFound == [found |-> FALSE, ip |-> ""]

RECURSIVE ScanRightToLeft(_, _)
\* the inner loop: from entry i down to the first entry, the first entry
\* that parses and is a public address
ScanRightToLeft(addresses, i) ==
  IF i < 1 THEN NotFound
  ELSE LET ip == TrimSpace(addresses[i])
           realIP == ParseIP(ip)
       IN IF realIP = NoIP THEN ScanRightToLeft(addresses, i - 1)
          ELSE IF ~IsGlobalUnicast(realIP) \/ IsPrivateSubnet(realIP)
            THEN ScanRightToLeft(addresses, i - 1)
          ELSE [found |-> TRUE, ip |-> ip]

\* mutant of PickAddress: the leftmost entry that is a public address
PickAddressLeftmost(addresses) ==
  LET hits == {i \in 1..Len(addresses) :
                 ScanRightToLeft(<<addresses[i]>>, 1).found}
  IN IF hits = {} THEN NotFound
     ELSE LET i == CHOOSE j \in hits : \A m \in hits : j <= m
          IN ScanRightToLeft(<<addresses[i]>>, 1)

\* the inner loop, started at the last entry
PickAddress(addresses) == ScanRightToLeft(addresses, Len(addresses))

RECURSIVE ScanHeaders(_, _, _)
\* the outer loop over checkHeaders, from position k
ScanHeaders(checkHeaders, header, k) ==
  IF k > Len(checkHeaders) THEN NotFound
  ELSE LET addresses == Split(header[checkHeaders[k]])
           r == PickAddress(addresses)
       IN IF r.found THEN r ELSE ScanHeaders(checkHeaders, header, k + 1)

\* the two loops, then the fallback on r.RemoteAddr
IPAddressFromRequest(checkHeaders, header, remoteAddr) ==
  LET headers == IF Len(checkHeaders) = 0 THEN defaultHeaders ELSE checkHeaders
      r == ScanHeaders(headers, header, 1)
      hp == SplitHostPort(remoteAddr)
      realIP == ParseIP(hp.host)
  IN IF r.found THEN r.ip
     ELSE IF hp.err THEN ""
     ELSE IF realIP = NoIP THEN ""
     ELSE IF IsGlobalUnicast(realIP) /\ ~IsPrivateSubnet(realIP) THEN hp.host
     ELSE ""

IPStep ==
  /\ ipPc = "ready"
  /\ ipRet' = IPAddressFromRequest(ipCheckHeaders, ipHeaders, ipRemoteAddr)
  /\ ipPc' = "done"
  /\ UNCHANGED <<ipCheckHeaders, ipHeaders, ipRemoteAddr>>
  /\ UNCHANGED <<srvVars, ofVars>>
  /\ UNCHANGED <<registered, shutdownTimeoutCfg, bundles, bundlesCalled,
                 notifyActive, serverCtxDone, signalSeen, pc, lpc, chanBuf,
                 chanClosed, cause, listenAndServeError, startRet,
                 selectSaw, bundleCalls, servingAtSignal>>
  /\ UNCHANGED <<envVars, hsVars, otelVars>>

SeqsUpTo(S, n) == UNION {[1..k -> S] : k \in 0..n}

InitIP ==
  /\ StartIdle
  /\ SrvIdle
  /\ OfIdle
  /\ HsIdle
  /\ OTelIdle
  /\ ExpIdle
  /\ ctxCancelled = FALSE
  /\ inShutdown = FALSE
  /\ ipCheckHeaders \in
       {<<>>, <<"X-Real-Ip">>, <<"X-Real-Ip", "X-Forwarded-For">>,
        <<"My-Client-Ip", "X-Forwarded-For">>}
  /\ \E xff \in SeqsUpTo({"8.8.8.8", " 1.1.1.1 ", "10.0.0.1", "127.0.0.1",
                          "224.0.0.1", "not-an-ip"}, MaxEntries),
        xri \in SeqsUpTo({"1.1.1.1", "203.0.114.50", "192.168.0.5",
                          "169.254.10.10", "203.0.113.7",
                          "2001:4860:4860::8888", "fc00::1", "ff02::1",
                          " "}, 1),
        mci \in SeqsUpTo({"8.8.8.8", "10.0.0.1"}, 1) :
       ipHeaders = [h \in HeaderNames |->
                      CASE h = "X-Forwarded-For" -> xff
                        [] h = "X-Real-Ip" -> xri
                        [] h = "My-Client-Ip" -> mci
                        [] OTHER -> <<>>]
  /\ ipRemoteAddr \in
       {"8.8.8.8:12345", "10.0.0.1:12345", "127.0.0.1:12345",
        "[2001:4860:4860::8888]:12345", "[fc00::1]:12345",
        "not-an-ip:12345", "8.8.8.8"}
  /\ ipPc = "ready"
  /\ ipRet = ""

NextIP == IPStep

SpecIP == InitIP /\ [][NextIP]_vars

\* ------------------------------------------------------- exporters
\* configura.Fallback(value, fallback) on strings: the fallback replaces a
\* value that is the zero value of its type, the empty string.
Fallback(value, fallback) == IF value = "" THEN fallback ELSE value

EndpointValues == {"", "http://collector:4318", "https://secure:4318"}

ProtocolValues == {"", "grpc", "HTTP/protobuf", "kafka"}

HeaderValues == {"", "k1=v1", "k2=v2,novalue"}

TimeoutStrings == {"", "5s", "30s", "soon"}

\* the strings a scope's four OTEL_EXPORTER_OTLP_* keys may hold
SettingValues ==
  [endpoint : EndpointValues, protocol : ProtocolValues,
   headers : HeaderValues, timeout : TimeoutStrings]

\* strings.ToLower on the protocol strings
ToLower(str) == IF str = "HTTP/protobuf" THEN "http/protobuf" ELSE str

\* strings.Split(headerStr, ",") followed by strings.SplitN(pair, "=", 2)
\* and strings.TrimSpace on a non-empty header string
SplitPairs(str) ==
  CASE str = "k1=v1" -> << <<"k1", "v1">> >>
    [] str = "k2=v2,novalue" -> << <<"k2", "v2">>, <<"novalue">> >>
    [] OTHER -> << <<str>> >>

\* part_001:57-74: parseHeaders; the map as a set of <<key, value>>
ParseHeaders(headerStr) ==
  IF headerStr = "" THEN {}
  ELSE LET pairs == SplitPairs(headerStr)
       IN {<<pairs[i][1], pairs[i][2]>> :
             i \in {j \in 1..Len(pairs) :
                      Len(pairs[j]) = 2 /\ pairs[j][1] # ""}}

\* time.ParseDuration on the timeout strings, in ticks of the model's clock
TimeParseDuration(str) ==
  CASE str = "5s" -> [ok |-> TRUE, d |-> 5 * Second]
    [] str = "30s" -> [ok |-> TRUE, d |-> 30 * Second]
    [] OTHER -> [ok |-> FALSE, d |-> 0]

\* part_001:77-87: parseDuration
ParseDuration(durationStr, defaultDuration) ==
  IF durationStr = "" THEN defaultDuration
  ELSE LET r == TimeParseDuration(durationStr)
       IN IF ~r.ok THEN defaultDuration ELSE r.d

UnsupportedProtocolErr(sig) == Leaf(<<"unsupported OTLP protocol", sig>>)

StdoutErr(sig) == Leaf(<<"stdout exporter", sig>>)

\* the protocols the switch statements create an OTLP exporter for
SupportedProtocols == {"http", "http/protobuf", "grpc"}

\* part_001:359-367, 438-446, 518-526: the stdout exporter as fallback
StdoutExporter(sig, used, stdoutOk) ==
  IF stdoutOk
  THEN [exporter |-> "stdout", err |-> Nil, used |-> used]
  ELSE [exporter |-> "none", err |-> StdoutErr(sig), used |-> used]

\* mutant of UnsupportedProtocol: the traces provider falls back to stdout too
UnsupportedProtocolAlwaysStdout(sig, used, stdoutOk) ==
  StdoutExporter(sig, used, stdoutOk)

\* part_001:346-347, 425-426, 505-506: the default case of the protocol
\* switch.  newTracerProvider returns the error; newMeterProvider and
\* newLoggerProvider keep it in err, which drops the OTLP exporter and
\* leads to the stdout exporter.
UnsupportedProtocol(sig, used, stdoutOk) ==
  IF sig = "traces"
  THEN [exporter |-> "none", err |-> UnsupportedProtocolErr(sig),
        used |-> used]
  ELSE StdoutExporter(sig, used, stdoutOk)

\* part_001:300-545: newTracerProvider, newMeterProvider, newLoggerProvider
\* for the provider of sig.  otlpOk and stdoutOk say whether the creation
\* of the OTLP exporter and of the stdout exporter succeeds.
NewProvider(sig, cfg, enabled, otlpOk, stdoutOk) ==
  IF ~enabled THEN StdoutExporter(sig, NoSettings, stdoutOk)
  ELSE
    LET protocol == ToLower(Fallback(cfg[sig].protocol,
                                     cfg["global"].protocol))
        endpoint == Fallback(cfg[sig].endpoint, cfg["global"].endpoint)
    IN IF endpoint = ""
       THEN StdoutExporter(sig, [NoSettings EXCEPT !.protocol = protocol],
                           stdoutOk)
       ELSE
         LET headers == ParseHeaders(Fallback(cfg[sig].headers,
                                              cfg["global"].headers))
             timeout == ParseDuration(Fallback(cfg[sig].timeout,
                                               cfg["global"].timeout),
                                      10 * Second)
             used == [endpoint |-> endpoint, protocol |-> protocol,
                      headers |-> headers, timeout |-> timeout]
         IN IF protocol \in {"http", "http/protobuf"}
            THEN IF otlpOk
                 THEN [exporter |-> "otlphttp", err |-> Nil, used |-> used]
                 ELSE StdoutExporter(sig, used, stdoutOk)
            ELSE IF protocol = "grpc"
            THEN IF otlpOk
                 THEN [exporter |-> "otlpgrpc", err |-> Nil, used |-> used]
                 ELSE StdoutExporter(sig, used, stdoutOk)
            ELSE UnsupportedProtocol(sig, used, stdoutOk)

\* one call of the provider constructor of sig
NewProviderStep(sig) ==
  /\ expPc = "ready"
  /\ expSig = sig
  /\ \E otlpOk \in BOOLEAN, stdoutOk \in BOOLEAN :
       expResult' = NewProvider(sig, expCfg, expEnabled, otlpOk, stdoutOk)
  /\ expPc' = "done"
  /\ UNCHANGED <<expSig, expEnabled, expCfg>>
  /\ UNCHANGED <<otelKeysOk, otelEnabled, switches, opc, shutdownFuncs,
                 cumulativeErr, initCalls, failedSub, teardownCalls,
                 unwindFailed, globalProvider, retFn, retErr,
                 shutdownCallCount, lastInvoked, lastErr, callErrs>>
  /\ UNCHANGED <<startVars, envVars, hsVars>>

\* part_001:300-375
NewTracerProvider == NewProviderStep("traces")

\* part_001:379-454
NewMeterProvider == NewProviderStep("metrics")

\* part_001:459-545
NewLoggerProvider == NewProviderStep("logs")

\* a configuration in which the scopes of the other providers are empty
InitExporter ==
  /\ StartIdle
  /\ SrvIdle
  /\ OfIdle
  /\ IpIdle
  /\ HsIdle
  /\ OTelIdle
  /\ ctxCancelled = FALSE
  /\ inShutdown = FALSE
  /\ expSig \in SubNames
  /\ expEnabled \in BOOLEAN
  /\ \E g \in SettingValues, sp \in SettingValues :
       expCfg = [sc \in Scopes |->
                   IF sc = "global" THEN g
                   ELSE IF sc = expSig THEN sp
                   ELSE EmptySettings]
  /\ expPc = "ready"
  /\ expResult = NoResult

NextExporter ==
  \/ NewTracerProvider
  \/ NewMeterProvider
  \/ NewLoggerProvider

SpecExporter == InitExporter /\ [][NextExporter]_vars

\* ======================================================= properties
\* Start got past the configuration check and the route registration.
Passed ==
  /\ ConfigurationKeysRegistered(registered, RequiredKeys) = Nil
  /\ \A i \in 1..Len(bundles) : bundles[i]

\* C1 (SpecOTel): when the initializer of subsystem k fails, the teardown
\* actions invoked are exactly those of the subsystems initialized before k,
\* each once, in the reverse of their initialization order, and k's
\* initializer has been invoked exactly once.
C1_LifoUnwind ==
  failedSub # "none" =>
    /\ teardownCalls =
         Reverse(SelectSeq(initCalls, LAMBDA s : s # failedSub))
    /\ Count(initCalls, failedSub) = 1

C1_Witness ==
  /\ failedSub = "logs"
  /\ initCalls = <<"traces", "metrics", "logs">>
  /\ teardownCalls = <<"metrics", "traces">>

\* C2 (Spec): when the select resolved with both a delivered listener
\* failure E and the cancelled base context ready, Start returns E.
C2_CausePrecedence ==
  (/\ pc = "returned"
   /\ selectSaw.ready = {"chan", "ctx"}
   /\ selectSaw.pending # Nil)
  => startRet = selectSaw.pending

\* C3 (SpecOTel): after a successful setupOTelSDK the second call of the
\* returned teardown returns nil and invokes no teardown action; no
\* teardown action is ever invoked twice.
C3_AtMostOnceTeardown ==
  (opc = "returned" /\ retErr = Nil /\ shutdownCallCount >= 2) =>
    /\ lastErr = Nil
    /\ lastInvoked = <<>>
    /\ \A s \in SubNames : Count(teardownCalls, s) <= 1

C3_Witness ==
  /\ opc = "returned"
  /\ retErr = Nil
  /\ retFn = "master"
  /\ shutdownCallCount = 2
  /\ teardownCalls = <<"logs", "metrics", "traces">>

\* C4 (Spec): when the wait resolved with a listener error E, Start
\* returns E whatever handleShutdown returned.
C4_ResourceFailurePrimary ==
  (pc = "returned" /\ cause = "ResourceFailed") =>
    /\ listenAndServeError = ListenErr
    /\ startRet = listenAndServeError

C4_Witness ==
  /\ pc = "returned"
  /\ cause = "ResourceFailed"
  /\ shutdownErr = DeadlineExceeded
  /\ startRet = ListenErr

\* C5 (SpecOTel): the error setupOTelSDK returns after subsystem k failed
\* has k's error and the error of every teardown action that failed in the
\* unwind among its causes.
C5_ErrorAggregation ==
  failedSub # "none" =>
    /\ Is(retErr, InitErr(failedSub))
    /\ \A s \in unwindFailed : Is(retErr, TeardownErr(s))

C5_Witness ==
  /\ failedSub = "logs"
  /\ unwindFailed = {"traces", "metrics"}
  /\ opc = "returned"

\* C6 (SpecOTel): once an initializer has failed no further initializer is
\* invoked, setupOTelSDK has returned and its error is not nil.
C6_StopAtFirstFailure ==
  failedSub # "none" =>
    /\ initCalls[Len(initCalls)] = failedSub
    /\ opc = "returned"
    /\ retErr # Nil

C6_Witness ==
  /\ failedSub = "traces"
  /\ switches = [s \in SubNames |-> TRUE]
  /\ initCalls = <<"traces">>
  /\ opc = "returned"

\* C7 (SpecShutdown): whatever the ambient context and the duration, when
\* the stop operation returns the 'server closed' sentinel handleShutdown
\* returns nil.
C7_AlreadyClosedIsSuccess ==
  (hsPc = "returned" /\ stopResult = ErrServerClosed) => shutdownErr = Nil

C7_Witness ==
  /\ hsPc = "returned"
  /\ stopResult = ErrServerClosed
  /\ hsTimeout <= 0
  /\ ctxCancelled

\* C8 (SpecShutdown), as claimed: with a zero or negative duration the stop
\* operation is invoked once with an expired signal and handleShutdown
\* returns a deadline or cancellation error.
C8_ZeroDurationReturnsDeadlineError ==
  (hsPc = "returned" /\ hsTimeout <= 0) =>
    /\ stopCalls = 1
    /\ opErrAtCall \in {DeadlineExceeded, Canceled}
    /\ shutdownErr \in {DeadlineExceeded, Canceled}

\* C8 (SpecShutdown), amended: with a zero or negative duration the stop
\* operation is invoked exactly once, its signal is already expired when it
\* is invoked, and when the stop operation returns its signal's error
\* handleShutdown returns that deadline or cancellation error.
C8_ZeroDurationStillStops ==
  (hsPc \in {"stopping", "returned"} /\ hsTimeout <= 0) =>
    /\ stopCalls = 1
    /\ opErrAtCall \in {DeadlineExceeded, Canceled}
    /\ (hsPc = "returned" /\ stopResult = opErrAtCall)
         => shutdownErr \in {DeadlineExceeded, Canceled}

C8_Witness ==
  /\ hsPc = "returned"
  /\ hsTimeout = 0
  /\ ~ctxCancelled
  /\ stopCalls = 1
  /\ opErrAtCall = DeadlineExceeded
  /\ shutdownErr = DeadlineExceeded

\* C9 (Spec): in Start the deadline signal of the stop operation does not
\* depend on the base context: with a positive duration it is not done when
\* the stop operation is invoked, and while the stop operation runs it is
\* done only once the duration has elapsed, by deadline.
C9_ShutdownDeadlineIndependent ==
  /\ (hsPc \in {"stopping", "returned"} /\ hsTimeout > 0) => opErrAtCall = Nil
  /\ (hsPc = "stopping" /\ opCtxErr # Nil) =>
       /\ opCtxErr = DeadlineExceeded
       /\ opElapsed >= hsTimeout

C9_Witness ==
  /\ ctxCancelled
  /\ serverCtxDone
  /\ cause = "SignalReceived"
  /\ hsPc = "stopping"
  /\ hsTimeout > 0
  /\ opElapsed > 0
  /\ opCtxErr = Nil

\* C10 (Spec): the stop operation is invoked exactly once in every run of
\* Start that passes the configuration check and the route registration,
\* and never in a run that aborts earlier.
C10_StopExactlyOnce ==
  /\ stopCalls <= 1
  /\ ~Passed => stopCalls = 0
  /\ (pc = "returned" /\ Passed) => stopCalls = 1

C10_Witness ==
  /\ pc = "returned"
  /\ Passed
  /\ cause = "ResourceFailed"
  /\ stopCalls = 1

\* C11 (Spec): when the wait was not resolved by a listener failure, Start
\* returns what handleShutdown returned: nil when the stop succeeded or
\* reported 'server closed', otherwise the stop error.
C11_ShutdownResultReturned ==
  (pc = "returned" /\ cause \in {"SignalReceived", "ResourceClosedCleanly"}) =>
    /\ startRet = shutdownErr
    /\ stopResult \in {Nil, ErrServerClosed} => startRet = Nil
    /\ stopResult \notin {Nil, ErrServerClosed} => startRet = stopResult

C11_Witness ==
  /\ pc = "returned"
  /\ cause = "SignalReceived"
  /\ stopResult = ShutdownFailed
  /\ startRet = ShutdownFailed

\* The listener never failed: no error was sent on the channel.
NoListenerFailure == chanBuf = <<>> /\ listenAndServeError = Nil

\* C12 (SpecLive): once the base context is cancelled while the listener is
\* serving, Start eventually returns; and when the listener did not fail
\* and the stop operation completed without error, Start returns nil.
C12_GracefulExit ==
  /\ (pc = "select" /\ lpc = "listening" /\ serverCtxDone) ~> (pc = "returned")
  /\ []((pc = "returned" /\ Passed /\ NoListenerFailure /\ stopResult = Nil)
          => startRet = Nil)

C12_Witness ==
  /\ pc = "returned"
  /\ cause = "SignalReceived"
  /\ lpc = "done"
  /\ NoListenerFailure
  /\ hsTimeout > 0
  /\ opElapsed < hsTimeout
  /\ stopResult = Nil
  /\ startRet = Nil

\* C13 (Spec), as claimed: the stop operation is invoked only after the
\* listener task has begun its listen operation.
C13_StopAfterListenBegan ==
  stopCalls > 0 => lpc \in {"listening", "done"}

\* C13 (Spec), amended: the stop operation is invoked only after the
\* listener task has been started; the task may still be on its way to its
\* listen operation at that moment.
C13_StopAfterLaunch ==
  (stopCalls > 0 \/ inShutdown) => lpc \in {"spawned", "listening", "done"}

C13_Witness ==
  /\ stopCalls = 1
  /\ hsPc = "stopping"
  /\ lpc = "spawned"

\* the teardown actions invoked by the step, in order
InvokedByStep ==
  SubSeq(teardownCalls', Len(teardownCalls) + 1, Len(teardownCalls'))

\* the step is a run of masterShutdown: the eager unwind or a later call
MasterShutdownStep ==
  \/ failedSub' # failedSub
  \/ shutdownCallCount' # shutdownCallCount /\ retFn = "master"

\* C14 (SpecOTel): a run of the composite teardown invokes every teardown
\* action of the registry exactly once, whichever of them return an error,
\* and leaves the registry empty.
C14_UnwindNotHalted ==
  [][MasterShutdownStep =>
       /\ Len(InvokedByStep) = Len(shutdownFuncs)
       /\ \A s \in Range(shutdownFuncs) : Count(InvokedByStep, s) = 1
       /\ shutdownFuncs' = <<>>]_vars

C14_Witness ==
  /\ failedSub = "logs"
  /\ unwindFailed = {"metrics"}
  /\ teardownCalls = <<"metrics", "traces">>
  /\ shutdownFuncs = <<>>

SubOrder == <<"traces", "metrics", "logs">>

\* C15 (SpecOTel): when no initializer fails the enabled subsystems are
\* initialized in the order traces, metrics, logs, the error is nil, and
\* the first call of the returned teardown invokes their teardown actions
\* once each in the reverse order.
C15_InitOrderAndReverseTeardown ==
  (opc = "returned" /\ retFn = "master" /\ failedSub = "none") =>
    /\ retErr = Nil
    /\ initCalls = SelectSeq(SubOrder, LAMBDA s : switches[s])
    /\ shutdownCallCount = 0 => teardownCalls = <<>>
    /\ shutdownCallCount = 1 => lastInvoked = Reverse(initCalls)
    /\ shutdownCallCount >= 1 => teardownCalls = Reverse(initCalls)

C15_Witness ==
  /\ opc = "returned"
  /\ retErr = Nil
  /\ initCalls = <<"traces", "metrics", "logs">>
  /\ shutdownCallCount = 1
  /\ lastInvoked = <<"logs", "metrics", "traces">>

SomeBundleFails == \E i \in 1..Len(bundles) : ~bundles[i]

\* C17 (Spec): when a route-registration callback returns an error Start
\* returns that error, the listener task is never started and the stop
\* operation is never invoked.
C17_RegistrationFailureAborts ==
  (ConfigurationKeysRegistered(registered, RequiredKeys) = Nil
     /\ SomeBundleFails) =>
    /\ lpc = "none"
    /\ stopCalls = 0
    /\ ~inShutdown
    /\ pc \in {"start", "notify", "register", "returned"}
    /\ pc = "returned" => startRet = BundleErr

C17_Witness ==
  /\ bundles = <<TRUE, FALSE>>
  /\ pc = "returned"
  /\ startRet = BundleErr
  /\ lpc = "none"

\* C18 (Spec): Start requires the five configuration keys: when one of them
\* is not registered Start returns the missing-key error, and when all are
\* registered the check passes.
C18_FiveKeysRequired ==
  pc # "start" =>
    IF KeyNames \subseteq registered
    THEN ~(pc = "returned" /\ startRet = MissingKeyErr)
    ELSE pc = "returned" /\ startRet = MissingKeyErr

\* C19 (Spec): when the configuration check fails Start returns the error
\* and the signal observer is never installed, no route-registration
\* callback is invoked, the listener task is never started and the stop
\* operation is never invoked.
C19_MissingConfigAborts ==
  ConfigurationKeysRegistered(registered, RequiredKeys) # Nil =>
    /\ ~notifyActive
    /\ ~serverCtxDone
    /\ bundlesCalled = 0
    /\ lpc = "none"
    /\ stopCalls = 0
    /\ pc \in {"start", "returned"}
    /\ pc = "returned" => startRet = MissingKeyErr

C19_Witness ==
  /\ registered = KeyNames \ {"SERVER_PORT"}
  /\ bundles = <<TRUE, TRUE>>
  /\ ctxCancelled
  /\ pc = "returned"
  /\ startRet = MissingKeyErr

\* C20 (SpecShutdown): an error of the stop operation other than the
\* 'server closed' sentinel is returned by handleShutdown as it is.
C20_StopErrorUnchanged ==
  (hsPc = "returned" /\ stopResult \notin {Nil, ErrServerClosed}) =>
    shutdownErr = stopResult

C20_Witness ==
  /\ hsPc = "returned"
  /\ hsTimeout > 0
  /\ stopResult = Canceled
  /\ shutdownErr = Canceled

\* C21 (SpecShutdown): when the ambient context is cancelled while the stop
\* operation runs and before the duration has elapsed, the derived signal
\* is done with 'canceled', not with 'deadline exceeded', and when the stop
\* operation returns its signal's error handleShutdown returns an error
\* whose cause chain contains 'canceled'.
C21_OuterCancellationDistinct ==
  (/\ hsPc \in {"stopping", "returned"}
   /\ opErrAtCall = Nil
   /\ ctxCancelled
   /\ opElapsed < hsTimeout) =>
    /\ opCtxErr = Canceled
    /\ ~Is(opCtxErr, DeadlineExceeded)
    /\ (hsPc = "returned" /\ stopResult = opCtxErr) =>
         /\ Is(shutdownErr, Canceled)
         /\ ~Is(shutdownErr, DeadlineExceeded)

C21_Witness ==
  /\ hsPc = "returned"
  /\ opErrAtCall = Nil
  /\ ctxCancelled
  /\ hsTimeout = 2
  /\ opElapsed = 1
  /\ stopResult = Canceled
  /\ Is(shutdownErr, Canceled)

\* C22 (SpecShutdown): when the ambient context is not cancelled and the
\* stop operation is still running when the positive duration has elapsed,
\* the derived signal is done with 'deadline exceeded'; when the stop
\* operation then returns its signal's error handleShutdown returns an
\* error whose cause chain contains 'deadline exceeded'; and the step in
\* which the stop operation returns is the step in which handleShutdown
\* returns, with no time passing in between.
C22_DeadlineExpiry ==
  /\ []((/\ hsPc \in {"stopping", "returned"}
         /\ hsTimeout > 0
         /\ ~ctxCancelled
         /\ opElapsed >= hsTimeout) =>
          /\ opCtxErr = DeadlineExceeded
          /\ (hsPc = "returned" /\ stopResult = opCtxErr) =>
               Is(shutdownErr, DeadlineExceeded))
  /\ [][(hsPc = "stopping" /\ hsPc' # "stopping") =>
          /\ hsPc' = "returned"
          /\ opElapsed' = opElapsed
          /\ shutdownErr' = HandleShutdownResult(stopResult')]_vars

C22_Witness ==
  /\ hsPc = "returned"
  /\ ~ctxCancelled
  /\ hsTimeout = 2
  /\ opElapsed = 2
  /\ opErrAtCall = Nil
  /\ stopResult = DeadlineExceeded
  /\ Is(shutdownErr, DeadlineExceeded)

\* C23 (SpecOTel): with OTEL_ENABLED true, a subsystem whose switch is false
\* is never initialized, registers no teardown action, and its process-wide
\* provider stays the original one; a subsystem whose switch is true and
\* whose initializer succeeded has the SDK provider as its process-wide
\* provider; and when no initializer failed setupOTelSDK returns a nil
\* error, for every combination of the three switches.
C23_PerSignalSwitches ==
  (otelKeysOk /\ otelEnabled) =>
    /\ \A s \in SubNames :
         ~switches[s] =>
           /\ s \notin Range(initCalls)
           /\ s \notin Range(shutdownFuncs)
           /\ s \notin Range(teardownCalls)
           /\ globalProvider[s] = "original"
    /\ \A s \in SubNames :
         (switches[s] /\ s \in Range(initCalls) /\ s # failedSub) =>
           globalProvider[s] = "sdk"
    /\ (opc = "returned" /\ retFn = "master" /\ failedSub = "none") =>
         /\ retErr = Nil
         /\ \A s \in SubNames :
              globalProvider[s] = IF switches[s] THEN "sdk" ELSE "original"

C23_Witness ==
  /\ otelKeysOk
  /\ otelEnabled
  /\ switches = [s \in SubNames |-> s # "metrics"]
  /\ opc = "returned"
  /\ retErr = Nil
  /\ initCalls = <<"traces", "logs">>
  /\ shutdownFuncs = <<"traces", "logs">>
  /\ globalProvider =
       [s \in SubNames |-> IF s = "metrics" THEN "original" ELSE "sdk"]

\* C28 (SpecOTel): when OTEL_ENABLED is false the process-wide tracer, meter
\* and logger providers are the ones that were there before the call.
C28_DisabledLeavesProviders ==
  ~otelEnabled => \A s \in SubNames : globalProvider[s] = "original"

C28_Witness ==
  /\ otelKeysOk
  /\ ~otelEnabled
  /\ switches = [s \in SubNames |-> TRUE]
  /\ opc = "returned"
  /\ retFn = "noop"
  /\ shutdownCallCount = 1
  /\ globalProvider = [s \in SubNames |-> "original"]

\* C29 (SpecOTel): after setupOTelSDK failed at a subsystem and ran the
\* unwind, the returned teardown is the composite one (not nil) and the
\* registry is empty; every later call of it returns nil and invokes no
\* teardown action, so that no teardown action of the unwind runs again.
C29_TeardownAfterFailedSetup ==
  failedSub # "none" =>
    /\ retFn = "master"
    /\ shutdownFuncs = <<>>
    /\ shutdownCallCount >= 1 => (lastErr = Nil /\ lastInvoked = <<>>)
    /\ Len(teardownCalls) = Len(initCalls) - 1
    /\ \A s \in SubNames : Count(teardownCalls, s) <= 1

C29_Witness ==
  /\ failedSub = "logs"
  /\ unwindFailed = {"traces"}
  /\ retFn = "master"
  /\ shutdownCallCount = 2
  /\ lastErr = Nil
  /\ lastInvoked = <<>>
  /\ teardownCalls = <<"metrics", "traces">>

\* C25 (Spec): the route-registration callbacks are invoked in the order
\* given, each at most once, in the one registration step that precedes the
\* start of the listener task; no callback is invoked after one that
\* returned an error; and when none fails each is invoked exactly once.
C25_RegistrationOrder ==
  /\ [](/\ Len(bundleCalls) <= Len(bundles)
        /\ \A k \in 1..Len(bundleCalls) : bundleCalls[k] = k
        /\ \A k \in 1..(Len(bundleCalls) - 1) : bundles[bundleCalls[k]]
        /\ lpc # "none" =>
             /\ bundleCalls = [k \in 1..Len(bundles) |-> k]
             /\ ~SomeBundleFails
        /\ (pc \notin {"start", "notify", "register"} /\ Passed) =>
             bundleCalls = [k \in 1..Len(bundles) |-> k])
  /\ [][bundleCalls' # bundleCalls =>
          /\ pc = "register"
          /\ bundleCalls = <<>>
          /\ lpc = "none"
          /\ lpc' = "none"]_vars

C25_Witness ==
  /\ bundles = <<TRUE, TRUE>>
  /\ bundleCalls = <<1, 2>>
  /\ pc = "select"
  /\ lpc = "spawned"

\* C26 (Spec): when the cancellation of the base context resolved the wait,
\* signal observation is stopped from then on, so before the stop operation
\* is invoked; and whenever Start has returned, signal observation is
\* stopped.
C26_SignalObservationStopped ==
  /\ cause = "SignalReceived" => ~notifyActive
  /\ (cause = "SignalReceived" /\ stopCalls > 0) => ~notifyActive
  /\ pc = "returned" => ~notifyActive

C26_Witness ==
  /\ cause = "SignalReceived"
  /\ signalSeen = "SIGTERM"
  /\ hsPc = "stopping"
  /\ stopCalls = 1
  /\ ~notifyActive

\* C27 (SpecLive): each of SIGHUP, SIGINT, SIGTERM and SIGQUIT, delivered
\* while the listener is serving, cancels the base context and changes
\* nothing else of Start; from there Start eventually returns; and a run
\* whose wait was resolved by the cancellation, whether a signal or the
\* ambient context caused it, has invoked the stop operation once and
\* returns what handleShutdown made of the stop result.
C27_SignalsSamePath ==
  /\ \A sig \in Signals :
       (signalSeen = sig /\ servingAtSignal /\ pc = "select")
         ~> (pc = "returned")
  /\ [][signalSeen' # signalSeen =>
          /\ signalSeen' \in Signals
          /\ serverCtxDone'
          /\ UNCHANGED <<pc, lpc, chanBuf, chanClosed, cause, hsVars>>]_vars
  /\ []((pc = "returned" /\ cause = "SignalReceived"
           /\ (ctxCancelled \/ (signalSeen \in Signals /\ servingAtSignal)))
          => /\ stopCalls = 1
             /\ startRet = shutdownErr
             /\ shutdownErr = HandleShutdownResult(stopResult))

C27_Witness ==
  /\ pc = "returned"
  /\ signalSeen = "SIGQUIT"
  /\ servingAtSignal
  /\ ~ctxCancelled
  /\ cause = "SignalReceived"
  /\ stopCalls = 1
  /\ stopResult = ShutdownFailed
  /\ startRet = ShutdownFailed

\* errors the listener task has sent on its channel: buffered or received
ListenerSends ==
  Len(chanBuf) + (IF listenAndServeError # Nil THEN 1 ELSE 0)

\* C30 (Spec): the listener task delivers exactly one outcome, one send of
\* a failure or one close and never both, and nothing before it is done;
\* while the task has not delivered, the channel's buffer has room, so the
\* send cannot block whichever branch the orchestrator took.
C30_ListenerOneOutcome ==
  /\ lpc = "done" =>
       ListenerSends + (IF chanClosed THEN 1 ELSE 0) = 1
  /\ lpc # "done" => (ListenerSends = 0 /\ ~chanClosed)
  /\ lpc \in {"spawned", "listening"} => Len(chanBuf) < ChanCap
  /\ Len(chanBuf) <= ChanCap

C30_Witness ==
  /\ pc = "returned"
  /\ cause = "SignalReceived"
  /\ lpc = "done"
  /\ chanBuf = <<ListenErr>>
  /\ ~chanClosed
  /\ listenAndServeError = Nil

\* C24 (SpecExporter): for each provider and each of the settings endpoint,
\* protocol, headers and timeout, the effective value is the one of the
\* signal-specific key when that is present, else the one of the global
\* key, else a built-in default: no endpoint means the stdout exporter, no
\* protocol a protocol the exporter supports, no headers the empty map, no
\* timeout ten seconds.
C24_FallbackChain ==
  (expPc = "done" /\ expEnabled) =>
    LET sp == expCfg[expSig]
        g == expCfg["global"]
        u == expResult.used
        Chain(x) == IF sp[x] # "" THEN sp[x] ELSE g[x]
    IN /\ u.endpoint = Chain("endpoint")
       /\ Chain("endpoint") = "" => expResult.exporter \in {"stdout", "none"}
       /\ Chain("endpoint") # "" =>
            /\ Chain("protocol") # "" =>
                 u.protocol = ToLower(Chain("protocol"))
            /\ Chain("protocol") = "" => u.protocol \in SupportedProtocols
            /\ u.headers = ParseHeaders(Chain("headers"))
            /\ TimeParseDuration(Chain("timeout")).ok =>
                 u.timeout = TimeParseDuration(Chain("timeout")).d
            /\ Chain("timeout") = "" => u.timeout = 10 * Second

C32_KeyCheckFirst ==
  (opc = "returned" /\ ~otelEnabled /\ ~otelKeysOk) =>
    /\ retErr = MissingKeyErr
    /\ retFn = "nil"
    /\ initCalls = <<>>

C32_Witness ==
  /\ opc = "returned"
  /\ ~otelEnabled
  /\ ~otelKeysOk
  /\ retErr = MissingKeyErr
  /\ retFn = "nil"

\* C33 (SpecOTel): when the first call of the composite teardown returned
\* an error, the registry is empty all the same, and the second call
\* returns nil and invokes no teardown action, the failed one included.
C33_FailedTeardownNotRetried ==
  (retFn = "master" /\ Len(callErrs) >= 1 /\ callErrs[1] # Nil) =>
    /\ shutdownFuncs = <<>>
    /\ \A s \in SubNames : Count(teardownCalls, s) <= 1
    /\ Len(callErrs) >= 2 =>
         /\ callErrs[2] = Nil
         /\ lastErr = Nil
         /\ lastInvoked = <<>>

C33_Witness ==
  /\ retFn = "master"
  /\ failedSub = "none"
  /\ Len(callErrs) = 2
  /\ Is(callErrs[1], TeardownErr("logs"))
  /\ Is(callErrs[1], TeardownErr("traces"))
  /\ callErrs[2] = Nil
  /\ teardownCalls = <<"logs", "metrics", "traces">>
  /\ lastInvoked = <<>>

\* C34 (SpecOTel): after subsystem k failed and the unwind ran, the
\* process-wide provider of every subsystem initialized before k is still
\* the SDK provider, whose teardown the unwind has invoked, and the
\* providers of k and of the subsystems after it are the original ones.
C34_UnwindKeepsProviders ==
  failedSub # "none" =>
    \A s \in SubNames :
      IF s \in Range(initCalls) /\ s # failedSub
      THEN /\ globalProvider[s] = "sdk"
           /\ s \in Range(teardownCalls)
      ELSE globalProvider[s] = "original"

C34_Witness ==
  /\ failedSub = "metrics"
  /\ switches = [s \in SubNames |-> TRUE]
  /\ teardownCalls = <<"traces">>
  /\ globalProvider =
       [s \in SubNames |-> IF s = "traces" THEN "sdk" ELSE "original"]

\* C35 (SpecExporter): with the OTLP exporter enabled and a non-empty
\* effective endpoint, an effective protocol other than grpc, http and
\* http/protobuf (the empty one included) makes the traces constructor
\* return the 'unsupported protocol' error and no provider, while the
\* metrics and logs constructors use the stdout exporter and succeed; with
\* the exporter disabled or no effective endpoint all three use the stdout
\* exporter.  The stdout cases are those where the stdout exporter itself
\* can be created.
C35_UnsupportedProtocol ==
  expPc = "done" =>
    LET sp == expCfg[expSig]
        g == expCfg["global"]
        endpoint == IF sp.endpoint # "" THEN sp.endpoint ELSE g.endpoint
        protocol ==
          ToLower(IF sp.protocol # "" THEN sp.protocol ELSE g.protocol)
        stdout == expResult.err # StdoutErr(expSig) =>
                    (expResult.exporter = "stdout" /\ expResult.err = Nil)
    IN /\ (expEnabled /\ endpoint # ""
            /\ protocol \notin {"grpc", "http", "http/protobuf"}) =>
            IF expSig = "traces"
            THEN /\ expResult.err = UnsupportedProtocolErr("traces")
                 /\ expResult.exporter = "none"
            ELSE stdout
       /\ (~expEnabled \/ endpoint = "") => stdout

C35_Witness ==
  /\ expPc = "done"
  /\ expSig = "traces"
  /\ expEnabled
  /\ expResult.used.endpoint = "https://secure:4318"
  /\ expResult.used.protocol = ""
  /\ expResult.err = UnsupportedProtocolErr("traces")

\* C36 (SpecServer): the write timeout of the listener is the value
\* registered under the key SERVER_WRITE_TIMEOUT, whatever the value
\* registered under SERVER_REQUEST_TIMEOUT.
C36_WriteTimeoutFromItsKey ==
  srvPc = "built" =>
    srvTimeouts.write = srvCfg["SERVER_WRITE_TIMEOUT"] * Second

C38_RightmostPublicAddress ==
  ipPc = "done" =>
    LET public == {"8.8.8.8", "1.1.1.1", "203.0.114.50",
                   "2001:4860:4860::8888"}
        order == IF ipCheckHeaders = <<>> THEN defaultHeaders
                 ELSE ipCheckHeaders
        pos(h) == {i \in 1..Len(ipHeaders[h]) :
                     TrimSpace(ipHeaders[h][i]) \in public}
        holding == {k \in 1..Len(order) : pos(order[k]) # {}}
        hp == SplitHostPort(ipRemoteAddr)
    IN /\ IF holding # {}
            THEN LET k == CHOOSE j \in holding : \A m \in holding : j <= m
                     h == order[k]
                     i == CHOOSE j \in pos(h) : \A m \in pos(h) : j >= m
                 IN ipRet = TrimSpace(ipHeaders[h][i])
          ELSE IF ~hp.err /\ hp.host \in public THEN ipRet = hp.host
          ELSE ipRet = ""
       /\ ipRet \in public \cup {""}

\* the default list, X-Forwarded-For with two public entries and X-Real-Ip
\* with another public address: the right entry of X-Forwarded-For is returned
C38_Witness ==
  /\ ipPc = "done"
  /\ ipCheckHeaders = <<>>
  /\ ipHeaders["X-Forwarded-For"] = <<"8.8.8.8", " 1.1.1.1 ">>
  /\ ipHeaders["X-Real-Ip"] = <<"203.0.114.50">>
  /\ ipRemoteAddr = "[2001:4860:4860::8888]:12345"
  /\ ipRet = "1.1.1.1"

\* C39: the logging goroutine started inside handleShutdown always
\* terminates. When handleShutdown has returned, whatever srv.Shutdown
\* returned, shutdownOpCtx is done (the deferred cancel), and a goroutine
\* that waits for shutdownOpCtx.Done() gets past the wait.
C39_WatcherTerminates ==
  /\ [](hsPc = "returned" => opCtxErr # Nil)
  /\ (watcherPc = "waiting") ~> (watcherPc = "done")
  /\ (hsPc = "returned") ~> (watcherPc = "done")

\* srv.Shutdown failed before the deadline with the parent not cancelled: the
\* deferred cancel alone ended shutdownOpCtx, and the goroutine has finished
C39_Witness ==
  /\ hsPc = "returned"
  /\ watcherPc = "done"
  /\ stopResult = ShutdownFailed
  /\ ~ctxCancelled
  /\ opElapsed < hsTimeout
  /\ opCtxErr = Canceled

====
